---- MODULE Spec2Model ----
(***************************************************************************)
(* A model of the repository-metadata crawler of find-package-rugaru:      *)
(*   - async_query, the retrying executor of src/gh_meta_client.py;        *)
(*   - the windowed-batch stage of src/rx_try.py;                          *)
(*   - the reactive pipeline of src/rx_try.py over GHClient.               *)
(* Each part has its own specification over the shared variables.          *)
(***************************************************************************)
EXTENDS Integers, Sequences, FiniteSets, TLC

VARIABLES
    \* ---- async_query (src/gh_meta_client.py:32-109) ----
    pc,             \* position of the coroutine: start, await, sleep, done
    try_num,        \* the local try_num
    result,         \* the local result: "unset", "None" or "data"
    outcome,        \* what the executor answered to the latest attempt
    now,            \* int(time.time())
    calls,          \* number of times async_executor(query) was invoked
    sleeps,         \* number of asyncio.sleep calls made
    sleep_kind,     \* which sleep line was taken last: none, retry, reset, backoff
    sleep_seconds,  \* the argument of the last asyncio.sleep
    sleep_try,      \* try_num at the last asyncio.sleep, -1 when none
    sleep_now,      \* the clock at the last asyncio.sleep
    retry_after,    \* the local retry_after of async_query (line 68)
    reset_at,       \* the local reset_at of async_query (line 69)
    \* ---- the windowed-batch stage (src/rx_try.py:152) ----
    clock,          \* the event loop's time, in time-units
    window_start,   \* when the timer of the open window was started
    buffer,         \* the items of the open window, each with its arrival time
    flushed,        \* the batches passed downstream by the latest flush
    source,         \* the upstream of the stage: active, completed
    bursts,         \* how many bursts of items the upstream has emitted
    \* ---- the pipeline of main (src/rx_try.py:109-178) over GHClient ----
    stream,         \* npmsio_scores: unsubscribed, active, error, completed
    loop,           \* the asyncio event loop: running, stopped
    cause,          \* the exception passed to on_error: its kind and repository
    tasks,          \* the tasks of get_org_repo_langs, get_dep_files, get_deps
    org_repos,      \* the OrgRepo objects
    ghc,            \* the GHClient: its session (0: no attribute) and schema
    sessions,       \* how many sessions GHClient has created
    introspections, \* how many introspection queries were issued
    schema_file,    \* github_graphql_schema.json exists
    cached,         \* github_graphql_schema.json existed when main started
    closed,         \* the GHClient sessions that were closed
    close_is_coroutine, \* session.close() only builds a coroutine
    closes,         \* the tasks of ghc.close: created, run
    scores,         \* the tasks of npmsio_client.async_main
    received,       \* how many items on_next has received
    \* ---- the operations of GHClient on one OrgRepo ----
    \* ---- (src/gh_meta_client.py:341-426) ----
    lang_page_size,     \* GHClient.lang_page_size
    dep_file_page_size, \* GHClient.dep_file_page_size
    remote,         \* what the remote API holds for the repository
    org_repo,       \* the OrgRepo the operations are called on
    call,           \* the latest call: operation, query, result, exception
    prev,           \* the call before the latest
    ncalls,         \* how many calls were made
    \* ---- run_pipeline of postprocess ----
    \* ---- (src/fpr/pipelines/postprocess.py:311-386) ----
    repo_task,      \* args.repo_task
    line,           \* the row of the group that was processed last
    nrows,          \* how many rows of the group were processed
    tasks_result,   \* result["tasks"] of the group
    yielded,        \* how many groups have yielded their result
    updates,        \* what parse_npm_task or parse_yarn_task gave for the row
    failure,        \* the exception that ended run_pipeline, or none
    \* ---- group_by_org_repo_ref_path ----
    \* ---- (src/fpr/pipelines/postprocess.py:80-128) ----
    rows,           \* the rows read from the source, in the order read
    row_index,      \* the row itertools.groupby takes next
    current,        \* the group groupby is collecting: its key and its rows
    grouped,        \* the groups yielded so far, in order
    group_pc,       \* idle, read, group, done, IndexError
    \* ---- the dependency graph builder (fpr.graph_util) ----
    dependency_list,    \* the normalized dependency list given to the builder
    entry_index,        \* the entry the traversal visits next
    graph_nodes,        \* the package-version nodes; the node id is the position
    graph_links,        \* the parent -> child links, as pairs of node ids
    unresolved,         \* the specifiers recorded as unresolved, with their parent
    stats,              \* the summary statistics
    graph_pc            \* idle, nodes, links, stats, done

qvars == <<pc, try_num, result, outcome, now, calls, sleeps,
           sleep_kind, sleep_seconds, sleep_try, sleep_now,
           retry_after, reset_at>>

bvars == <<clock, window_start, buffer, flushed, source, bursts>>

pvars == <<stream, loop, cause, tasks, org_repos, ghc, sessions, introspections,
           schema_file, cached, closed, close_is_coroutine, closes, scores,
           received>>

cvars == <<lang_page_size, dep_file_page_size, remote, org_repo, call, prev, ncalls>>

nvars == <<repo_task, line, nrows, tasks_result, yielded, updates, failure>>

rvars == <<rows, row_index, current, grouped, group_pc>>

gvars == <<dependency_list, entry_index, graph_nodes, graph_links, unresolved,
           stats, graph_pc>>

xvars == <<cvars, nvars, rvars, gvars>>

vars == <<qvars, bvars, pvars, xvars>>

----------------------------------------------------------------------------
(* Bounds of the model *)

\* the clock saturates here
MaxTime == 3

\* the event loop's time stops here
MaxClock == 5

\* the upstream of the windowed-batch stage emits at most this many bursts
MaxBursts == 3

\* the number of org_repos given on the command line
NumRepos == 2

\* the remote API lists at most this many manifests for a repository
MaxManifests == 2

\* at most this many windows time out in a run of main
MaxTimers == 1

\* the page sizes a GHClient is constructed with are at most this
MaxPageSize == 2

\* at most this many operations of GHClient are called on the OrgRepo
MaxCalls == 3

\* a group of run_pipeline has at most this many rows
MaxRows == 2

\* run_pipeline reads at most this many groups
MaxGroups == 2

\* the stdout of a yarn task has at most this many lines
MaxLines == 2

\* group_by_org_repo_ref_path reads at most this many rows
MaxInputRows == 3

\* a dependency list has at most this many entries
MaxEntries == 2

\* an entry of a dependency list has at most this many dependent specifiers
MaxDependents == 1

\* an audit counts at most this many vulnerabilities of a severity
MaxCount == 1

----------------------------------------------------------------------------
(* async_query: src/gh_meta_client.py:32-109 *)

max_tries == 15

\* A response header as headers.get(name, None) returns it: absent (None),
\* or the header's text, a string of decimal digits.
NoHeader == [present |-> FALSE, text |-> <<>>]

Header(t) == [present |-> TRUE, text |-> t]

\* Python truthiness of headers.get(...): None and "" are false.
Truthy(h) == h.present /\ Len(h.text) > 0

\* int(text) for a string of decimal digits
RECURSIVE int(_)
int(t) == IF Len(t) = 0 THEN 0
          ELSE 10 * int(SubSeq(t, 1, Len(t) - 1)) + t[Len(t)]

RetryAfterValues == {NoHeader, Header(<<>>), Header(<<0>>), Header(<<5>>), Header(<<1, 2>>)}

ResetValues == {NoHeader, Header(<<>>), Header(<<0>>), Header(<<2>>), Header(<<9>>)}

\* the entries of err.errors, by their "type"
ErrorLists == {<<>>, <<"NOT_FOUND">>, <<"FORBIDDEN">>,
               <<"NOT_FOUND", "FORBIDDEN">>, <<"FORBIDDEN", "NOT_FOUND">>}

StatusCodes == {404, 403, 503, 500, 401}

NoOutcome == [kind |-> "none", errors |-> <<>>, status |-> 0,
              retry_after |-> NoHeader, reset_at |-> NoHeader]

OkOutcome == [NoOutcome EXCEPT !.kind = "ok"]

\* quiz.ErrorResponse with err.errors
ErrorResponse(errors) == [NoOutcome EXCEPT !.kind = "ErrorResponse", !.errors = errors]

\* quiz.HTTPError with err.response
HTTPError(status, ra, rs) ==
    [NoOutcome EXCEPT !.kind = "HTTPError", !.status = status,
                      !.retry_after = ra, !.reset_at = rs]

\* line 45: len(err.errors) and err.errors[0].get("type", None) == "NOT_FOUND"
FirstErrorIsLast(errors) == Len(errors) > 0 /\ errors[Len(errors)] = "NOT_FOUND"

IsNotFoundResponse(errors) == Len(errors) > 0 /\ errors[1] = "NOT_FOUND"

\* lines 50 and 66
BackoffWithoutBase(n) == 2 ^ n

backoff_sleep_seconds(n) == 2 ^ n + 60

\* line 35: while try_num < max_tries
LoopOffByOne(n) == n <= max_tries

LoopCondition(n) == n < max_tries

\* line 70: retry_after and int(retry_after) > 0
RetryAfterNonNegative(h) == Truthy(h) /\ int(h.text) >= 0

UseRetryAfter(h) == Truthy(h) /\ int(h.text) > 0

\* lines 44 and 60: result = None
KeepFailure(o) == o.kind

FailedResult(o) == "None"

\* line 108 then line 35 then line 37 or line 109: try_num += 1, the loop test,
\* and either the next await of the executor or the return
NextIteration(n) ==
    /\ try_num' = n
    /\ IF LoopCondition(n)
       THEN pc' = "await" /\ calls' = calls + 1
       ELSE pc' = "done" /\ calls' = calls

\* asyncio.sleep(seconds) reached on the line of the given kind
Sleep(kind, seconds) ==
    /\ pc' = "sleep"
    /\ sleeps' = sleeps + 1
    /\ sleep_kind' = kind
    /\ sleep_seconds' = seconds
    /\ sleep_try' = try_num
    /\ sleep_now' = now
    /\ UNCHANGED <<try_num, calls>>

NoSleep == UNCHANGED <<sleeps, sleep_kind, sleep_seconds, sleep_try, sleep_now>>

Repos == 1..NumRepos

Manifests == 1..MaxManifests

TaskIds == ({"langs", "dep_files"} \X Repos \X {0}) \cup ({"deps"} \X Repos \X Manifests)

NoTask == [pc |-> "none", exec |-> 0]

\* OrgRepo(org, repo): src/rx_try.py:27-38
OrgRepo == [languages |-> <<>>, dep_files |-> <<>>,
            dep_file_query_params |->
                [m \in Manifests |-> [set |-> FALSE, cursor |-> 0, first |-> 0]],
            dep_file_deps |-> [m \in Manifests |-> [set |-> FALSE, nodes |-> <<>>]]]

\* main before npmsio_scores.subscribe: src/rx_try.py:109-158
PipelineIdle ==
    /\ stream = "unsubscribed"
    /\ loop = "running"
    /\ cause = [kind |-> "none", repo |-> 0]
    /\ tasks = [t \in TaskIds |-> NoTask]
    /\ org_repos = [r \in Repos |-> OrgRepo]
    /\ ghc = [session |-> 0, schema |-> FALSE]
    /\ sessions = 0
    /\ introspections = 0
    /\ schema_file = FALSE
    /\ cached = FALSE
    /\ closed = {}
    /\ close_is_coroutine = TRUE
    /\ closes = [created |-> 0, run |-> 0]
    /\ scores = <<>>
    /\ received = 0

\* the windowed-batch stage before its subscription
BatchIdle ==
    /\ clock = 0
    /\ window_start = 0
    /\ buffer = <<>>
    /\ flushed = <<>>
    /\ source = "active"
    /\ bursts = 0

\* no call of an operation of GHClient was made
NoCall == [op |-> "none", m |-> 0, raised |-> "none",
           query |-> [first |-> 0, after |-> 0],
           repo |-> [shape |-> "none", edges |-> <<>>, hasNextPage |-> FALSE,
                     endCursor |-> 0],
           before |-> OrgRepo]

\* ---------------------------------------------------------------------
\* The values read by postprocess: the stdout of a task and the JSON in it
\* ---------------------------------------------------------------------

\* the severities an audit counts vulnerabilities of (postprocess.py:215-219)
Severities == {"low", "high"}

\* the severity to count mappings of an audit
Counts == [Severities -> 0..MaxCount]

\* a member of a JSON object: absent, null, or a value
Absent(none) == [state |-> "absent", value |-> none]
Null(none) == [state |-> "null", value |-> none]
Value(v) == [state |-> "value", value |-> v]

NoCounts == [s \in Severities |-> 0]

\* metadata of an npm audit, data of a yarn auditSummary
\* (postprocess.py:213-225): the vulnerabilities and the dependencies
NoMetadata == [vulnerabilities |-> Absent(NoCounts), dependencies |-> 0]

\* what json.loads gives for a text: a JSONDecodeError (ok is FALSE) or an
\* object with the members that postprocess reads:
\*   type, data.trees, data.vulnerabilities...  of a line of yarn,
\*   dependencies, problems                     of an npm list,
\*   advisories, metadata                       of an npm audit
JSONObject ==
    [ok |-> TRUE,
     type |-> "None",
     trees |-> Absent(<<>>),
     advisory |-> 0,
     data |-> Absent(NoMetadata),
     dependencies |-> Absent(<<>>),
     problems |-> Absent(<<>>),
     advisories |-> Absent(<<>>),
     metadata |-> Absent(NoMetadata)]

JSONDecodeError == [JSONObject EXCEPT !.ok = FALSE]

\* {"type": "tree", "data": {"trees": [...]}}
Tree(names) == [JSONObject EXCEPT !.type = "tree", !.trees = Value(names)]

\* {"type": "tree", "data": {}}
TreeWithoutTrees == [JSONObject EXCEPT !.type = "tree"]

\* {"type": "auditAdvisory", "data": {...}}
AuditAdvisory(id) == [JSONObject EXCEPT !.type = "auditAdvisory", !.advisory = id]

\* {"type": "auditSummary", "data": {"vulnerabilities": {...}, "dependencies": n}}
AuditSummary(counts, n) ==
    [JSONObject EXCEPT !.type = "auditSummary",
                       !.data = Value([vulnerabilities |-> Value(counts),
                                       dependencies |-> n])]

\* {"type": "auditSummary", "data": {"dependencies": n}}
AuditSummaryWithoutVulnerabilities(n) ==
    [JSONObject EXCEPT !.type = "auditSummary",
                       !.data = Value([NoMetadata EXCEPT !.dependencies = n])]

\* {"type": "info", "data": ...}: a line type postprocess does not know
Info == [JSONObject EXCEPT !.type = "info"]

\* {"name": ..., "dependencies": {...}, "problems": [...]}
NpmList(names, problems) ==
    [JSONObject EXCEPT !.dependencies = Value(names), !.problems = problems]

\* {"advisories": ..., "metadata": ...}
NpmAudit(advisories, metadata) ==
    [JSONObject EXCEPT !.advisories = advisories, !.metadata = metadata]

\* the lines of the stdout of yarn list and of yarn audit
YarnListLines == {JSONDecodeError, Tree(<<"a", "b">>), TreeWithoutTrees, Info}

YarnAuditLines ==
    {JSONDecodeError, AuditAdvisory(1), Info, AuditSummaryWithoutVulnerabilities(2)}
        \cup {AuditSummary(c, 2) : c \in Counts}

\* the documents of the stdout of npm list and of npm audit
NpmListDocuments ==
    {NpmList(<<"a", "b">>, Value(<<"missing">>)), NpmList(<<>>, Absent(<<>>))}

NpmAuditDocuments ==
    {NpmAudit(Null(<<>>), Null(NoMetadata)),
     NpmAudit(Absent(<<>>), Absent(NoMetadata)),
     NpmAudit(Value(<<1>>), Value(NoMetadata))}
        \cup {NpmAudit(Value(<<1>>),
                       Value([vulnerabilities |-> Value(c), dependencies |-> 2])) :
                c \in Counts}

Seqs(S, n) == UNION {[1..k -> S] : k \in 1..n}

\* The stdout of a task: None, or a text, of which the model keeps what
\* json.loads gives for the whole text (doc) and for each of its lines
\* (lines). A text of one line is that line; a text of several lines that
\* are each JSON is not one JSON document (json.loads: extra data); a
\* document printed over several lines has no line that is JSON.
NoStdout == [none |-> TRUE, doc |-> JSONDecodeError, lines |-> <<>>]

\* a text cut short: neither a JSON document nor lines of JSON
Truncated == [none |-> FALSE, doc |-> JSONDecodeError, lines |-> <<JSONDecodeError>>]

\* the texts npm prints: a document on one line or over several
StdoutsOfDocuments(documents) ==
    {NoStdout, Truncated}
        \cup {[none |-> FALSE, doc |-> d, lines |-> <<d>>] : d \in documents}
        \cup {[none |-> FALSE, doc |-> d,
               lines |-> <<JSONDecodeError, JSONDecodeError>>] : d \in documents}

\* the texts yarn prints: a record a line
StdoutsOfLines(records) ==
    {NoStdout}
        \cup {[none |-> FALSE,
               doc |-> IF Len(ls) = 1 THEN ls[1] ELSE JSONDecodeError,
               lines |-> ls] : ls \in Seqs(records, MaxLines)}

\* the commands of the tasks of npm and yarn (fpr/models/language.py:88-93,
\* 103-107) and a command of neither
npm == [install |-> "npm ci",
        list_metadata |-> "npm list --json",
        audit |-> "npm audit --json"]

yarn == [install |-> "yarn install --frozen-lockfile",
         list_metadata |-> "yarn list --json --frozen-lockfile",
         audit |-> "yarn audit --json --frozen-lockfile"]

TaskNames == DOMAIN npm

OtherCommand == "cargo audit --json"

\* a row of the input: the task of a repository, ref and dependency files
Line(name, command, stdout) ==
    [task |-> [name |-> name, command |-> command, stdout |-> stdout]]

NoLine == Line("none", "none", NoStdout)

\* the stdout that a command prints
Stdouts(command) ==
    IF command = npm.list_metadata THEN StdoutsOfDocuments(NpmListDocuments)
    ELSE IF command = npm.audit THEN StdoutsOfDocuments(NpmAuditDocuments)
    ELSE IF command = yarn.list_metadata THEN StdoutsOfLines(YarnListLines)
    ELSE IF command = yarn.audit THEN StdoutsOfLines(YarnAuditLines)
    ELSE {NoStdout, Truncated}

Lines ==
    UNION {{Line(name, command, stdout) : stdout \in Stdouts(command)} :
            <<name, command>> \in
                {<<n, c>> \in TaskNames \X {npm[m] : m \in TaskNames} : c = npm[n]}
                    \cup {<<n, c>> \in TaskNames \X {yarn[m] : m \in TaskNames} :
                            c = yarn[n]}
                    \cup (TaskNames \X {OtherCommand})}

\* what parse_npm_task and parse_yarn_task give: None, a dict, or an exception
ReturnsNone == [raised |-> "none", none |-> TRUE, dict |-> <<>>]
ReturnsDict(d) == [raised |-> "none", none |-> FALSE, dict |-> d]
Raises(e) == [raised |-> e, none |-> FALSE, dict |-> <<>>]

\* no group is being collected
NoGroup == [key |-> <<>>, rows |-> <<>>]

\* group_by_org_repo_ref_path before it is called
GroupIdle ==
    /\ rows = <<>>
    /\ row_index = 1
    /\ current = NoGroup
    /\ grouped = <<>>
    /\ group_pc = "idle"

NoStats == [node_count |-> 0, edge_count |-> 0]

\* the graph builder before it is called
GraphIdle ==
    /\ dependency_list = <<>>
    /\ entry_index = 1
    /\ graph_nodes = <<>>
    /\ graph_links = {}
    /\ unresolved = {}
    /\ stats = NoStats
    /\ graph_pc = "idle"

\* run_pipeline before it reads its source
NormalizerIdle ==
    /\ repo_task = {}
    /\ line = NoLine
    /\ nrows = 0
    /\ tasks_result = <<>>
    /\ yielded = 0
    /\ updates = ReturnsNone
    /\ failure = "none"

\* a GHClient and an OrgRepo on which no operation was called
ClientIdle ==
    /\ lang_page_size = 1
    /\ dep_file_page_size = 1
    /\ remote = [languages |-> 0, manifests |-> 0]
    /\ org_repo = OrgRepo
    /\ call = NoCall
    /\ prev = NoCall
    /\ ncalls = 0

QueryInit ==
    /\ BatchIdle
    /\ PipelineIdle
    /\ ClientIdle
    /\ NormalizerIdle
    /\ GroupIdle
    /\ GraphIdle
    /\ pc = "start"
    /\ try_num = 0
    /\ result = "unset"
    /\ outcome = NoOutcome
    /\ now \in 0..MaxTime
    /\ calls = 0
    /\ sleeps = 0
    /\ sleep_kind = "none"
    /\ sleep_seconds = 0
    /\ sleep_try = -1
    /\ sleep_now = 0
    /\ retry_after = NoHeader
    /\ reset_at = NoHeader

\* lines 33-37: the first pass through the loop
Begin ==
    /\ pc = "start"
    /\ NextIteration(0)
    /\ NoSleep
    /\ UNCHANGED <<result, outcome, now, retry_after, reset_at>>
    /\ UNCHANGED <<bvars, pvars, xvars>>

\* time passes while the executor is awaited
Tick ==
    /\ pc = "await"
    /\ now < MaxTime
    /\ now' = now + 1
    /\ UNCHANGED <<pc, try_num, result, outcome, calls, sleeps,
                   sleep_kind, sleep_seconds, sleep_try, sleep_now,
                   retry_after, reset_at>>
    /\ UNCHANGED <<bvars, pvars, xvars>>

\* lines 37-40: the executor returns a result
RespondOk ==
    /\ pc = "await"
    /\ outcome' = OkOutcome
    /\ result' = "data"
    /\ pc' = "done"
    /\ NoSleep
    /\ UNCHANGED <<try_num, calls, now, retry_after, reset_at>>
    /\ UNCHANGED <<bvars, pvars, xvars>>

\* lines 41-57: the executor raises quiz.ErrorResponse
RespondErrorResponse ==
    /\ pc = "await"
    /\ \E errors \in ErrorLists :
        /\ outcome' = ErrorResponse(errors)
        /\ result' = FailedResult(outcome')
        /\ IF IsNotFoundResponse(errors)
           THEN pc' = "done" /\ NoSleep /\ UNCHANGED <<try_num, calls>>
           ELSE Sleep("backoff", backoff_sleep_seconds(try_num))
    /\ UNCHANGED <<now, retry_after, reset_at>>
    /\ UNCHANGED <<bvars, pvars, xvars>>

\* lines 58-106: the executor raises quiz.HTTPError
RespondHTTPError ==
    /\ pc = "await"
    /\ \E status \in StatusCodes, ra \in RetryAfterValues, rs \in ResetValues :
        /\ status \notin {403, 503} => (ra = NoHeader /\ rs = NoHeader)
        /\ outcome' = HTTPError(status, ra, rs)
        /\ result' = FailedResult(outcome')
        /\ IF status \in {403, 503}
           THEN retry_after' = ra /\ reset_at' = rs
           ELSE UNCHANGED <<retry_after, reset_at>>
        /\ IF status = 404
           THEN pc' = "done" /\ NoSleep /\ UNCHANGED <<try_num, calls>>
           ELSE IF status \in {403, 503}
           THEN IF UseRetryAfter(ra)
                THEN Sleep("retry", int(ra.text))
                ELSE IF Truthy(rs)
                THEN IF int(rs.text) - now > 0
                     THEN Sleep("reset", int(rs.text) - now)
                     ELSE Sleep("backoff", backoff_sleep_seconds(try_num))
                ELSE Sleep("backoff", backoff_sleep_seconds(try_num))
           ELSE NextIteration(try_num + 1) /\ NoSleep
    /\ UNCHANGED now
    /\ UNCHANGED <<bvars, pvars, xvars>>

\* the asyncio.sleep returns: lines 108, 35
Wake ==
    /\ pc = "sleep"
    /\ now' = IF now + sleep_seconds > MaxTime THEN MaxTime ELSE now + sleep_seconds
    /\ NextIteration(try_num + 1)
    /\ NoSleep
    /\ UNCHANGED <<result, outcome, retry_after, reset_at>>
    /\ UNCHANGED <<bvars, pvars, xvars>>

QueryNext ==
    \/ Begin
    \/ Tick
    \/ RespondOk
    \/ RespondErrorResponse
    \/ RespondHTTPError
    \/ Wake

SpecQuery == QueryInit /\ [][QueryNext]_vars

----------------------------------------------------------------------------
(* Claims about async_query, checked under SpecQuery *)

\* the failure classes of the executor's contract, read off the latest outcome
IsNotFound(o) ==
    \/ o.kind = "HTTPError" /\ o.status = 404
    \/ o.kind = "ErrorResponse" /\ Len(o.errors) > 0 /\ o.errors[1] = "NOT_FOUND"

IsRateLimitedOrUnavailable(o) == o.kind = "HTTPError" /\ o.status \in {403, 503}

IsOther(o) == o.kind = "HTTPError" /\ o.status \notin {404, 403, 503}

IsTransient(o) == o.kind = "ErrorResponse" /\ ~IsNotFound(o)

\* the latest failure was followed by an asyncio.sleep of its own
SleptForLatest == sleep_try = (IF pc = "sleep" THEN try_num ELSE try_num - 1)

\* after a retryable failure the call goes on to the next attempt, and ends
\* only when that failure was the 15th
RetriedUpToCap ==
    /\ pc \in {"sleep", "await", "done"}
    /\ pc = "await" => calls = try_num + 1
    /\ pc = "done" => try_num = 15

\* C1: async_query invokes the executor at most 15 times for one query, and
\* once 15 attempts have failed it makes no further attempt and returns.
C1_AtMost15Attempts ==
    /\ calls <= 15
    /\ try_num <= 15
    /\ try_num = 15 => pc = "done" /\ calls = 15

C1_Witness == pc = "done" /\ calls = 15 /\ try_num = 15 /\ result = "None"

\* C2: an attempt that fails as NotFound (HTTP 404, or an error envelope
\* whose first entry has type NOT_FOUND) ends the call at that attempt: no
\* further attempt and no backoff sleep, whatever the attempt number.
C2_NotFoundTerminal ==
    IsNotFound(outcome) =>
        /\ pc = "done"
        /\ calls = try_num + 1
        /\ sleep_try < try_num

C2_Witness ==
    /\ pc = "done" /\ try_num = 3 /\ calls = 4
    /\ outcome.kind = "ErrorResponse" /\ IsNotFound(outcome)

\* C3 as stated: after HTTP 403 or 503, a present Retry-After is slept
\* exactly; otherwise a present X-RateLimit-Reset later than now is slept
\* until; otherwise 2^attempt + 60; and the query is then retried.
C3_AsStated ==
    IsRateLimitedOrUnavailable(outcome) =>
        /\ SleptForLatest
        /\ RetriedUpToCap
        /\ sleep_seconds =
             IF outcome.retry_after.present /\ Len(outcome.retry_after.text) > 0
             THEN int(outcome.retry_after.text)
             ELSE IF outcome.reset_at.present /\ Len(outcome.reset_at.text) > 0
                     /\ int(outcome.reset_at.text) > sleep_now
             THEN int(outcome.reset_at.text) - sleep_now
             ELSE 2 ^ sleep_try + 60

\* C3 amended: after HTTP 403 or 503, a Retry-After greater than 0 is slept
\* exactly; otherwise (no Retry-After, or a Retry-After of 0) a present
\* X-RateLimit-Reset later than now is slept until; otherwise 2^attempt + 60;
\* and the query is then retried, unless the attempt was the 15th.
C3_RateLimitLadder ==
    IsRateLimitedOrUnavailable(outcome) =>
        /\ SleptForLatest
        /\ RetriedUpToCap
        /\ sleep_seconds =
             IF outcome.retry_after.present /\ Len(outcome.retry_after.text) > 0
                /\ int(outcome.retry_after.text) > 0
             THEN int(outcome.retry_after.text)
             ELSE IF outcome.reset_at.present /\ Len(outcome.reset_at.text) > 0
                     /\ int(outcome.reset_at.text) > sleep_now
             THEN int(outcome.reset_at.text) - sleep_now
             ELSE 2 ^ sleep_try + 60

C3_Witness ==
    /\ pc = "sleep" /\ try_num = 2
    /\ outcome.kind = "HTTPError" /\ outcome.status = 503
    /\ outcome.retry_after = Header(<<0>>)
    /\ outcome.reset_at = Header(<<9>>)
    /\ sleep_seconds = 9 - now

\* C4: an attempt that fails with an HTTP error whose status is none of 404,
\* 403 and 503 is terminal: no further attempt is made for that query.
C4_OtherTerminal ==
    IsOther(outcome) =>
        /\ pc = "done"
        /\ calls = try_num + 1

FailureClass(o) ==
    IF IsNotFound(o) THEN "NotFound"
    ELSE IF IsTransient(o) THEN "TransientError"
    ELSE IF IsOther(o) THEN "Other"
    ELSE IF o.status = 403 THEN "RateLimited"
    ELSE "ServerUnavailable"

----------------------------------------------------------------------------
(* The windowed-batch stage: op.buffer_with_time_or_count(3.0, 50),         *)
(* src/rx_try.py:152.  The operator opens a window and starts a timer of   *)
(* timespan when it is subscribed; every item goes to the open window; a   *)
(* window that reaches count items is passed on and a new window and a new *)
(* timer are started; when the timer fires the open window is passed on,   *)
(* empty or not, and a new window and timer are started; when the upstream *)
(* completes the open window is passed on and the stage completes.         *)

timespan == 3

count == 50

\* the sizes of the bursts the upstream emits in one callback
BurstSizes == {1, 24, 25, 30}

\* an item as buffered: its package name and its arrival time
Item(name, at) == [name |-> name, at |-> at]

RECURSIVE Repeat(_, _)
Repeat(x, n) == IF n = 0 THEN <<>> ELSE <<x>> \o Repeat(x, n - 1)

\* a window is closed by count when it holds count items
WindowFullLate(n) == n = count + 1

WindowFull(n) == n = count

\* the timer of the open window is due
TimerLate(t) == t >= window_start + timespan + 1

TimerDue(t) == t >= window_start + timespan

\* a batch as passed downstream, with what closed it
Batch(items, why, opened) ==
    [items |-> items, cause |-> why, opened |-> opened, at |-> clock]

\* on_next for each item of a burst in turn: the window after the burst and
\* the batches closed by count on the way
RECURSIVE OnNextAll(_, _, _, _)
OnNextAll(buf, opened, items, out) ==
    IF items = <<>>
    THEN [buffer |-> buf, opened |-> opened, batches |-> out]
    ELSE LET b == Append(buf, Head(items))
         IN  IF WindowFull(Len(b))
             THEN OnNextAll(<<>>, clock, Tail(items),
                            Append(out, Batch(b, "count", opened)))
             ELSE OnNextAll(b, opened, Tail(items), out)

BatchInit ==
    /\ BatchIdle
    /\ PipelineIdle
    /\ ClientIdle
    /\ NormalizerIdle
    /\ GroupIdle
    /\ GraphIdle
    /\ pc = "done"
    /\ try_num = 0
    /\ result = "unset"
    /\ outcome = NoOutcome
    /\ now = 0
    /\ calls = 0
    /\ sleeps = 0
    /\ sleep_kind = "none"
    /\ sleep_seconds = 0
    /\ sleep_try = -1
    /\ sleep_now = 0
    /\ retry_after = NoHeader
    /\ reset_at = NoHeader

\* time passes; a due timer fires before it passes further
BatchTick ==
    /\ source = "active"
    /\ clock < MaxClock
    /\ ~TimerDue(clock)
    /\ clock' = clock + 1
    /\ UNCHANGED <<window_start, buffer, flushed, source, bursts>>
    /\ UNCHANGED <<qvars, pvars, xvars>>

\* the upstream emits a burst of items
BatchOnNext ==
    /\ source = "active"
    /\ bursts < MaxBursts
    /\ \E k \in BurstSizes :
        LET r == OnNextAll(buffer, window_start, Repeat(Item("p", clock), k), <<>>)
        IN  /\ buffer' = r.buffer
            /\ window_start' = r.opened
            /\ flushed' = IF r.batches = <<>> THEN flushed ELSE r.batches
    /\ bursts' = bursts + 1
    /\ UNCHANGED <<clock, source>>
    /\ UNCHANGED <<qvars, pvars, xvars>>

\* the timer of the open window fires
BatchTimer ==
    /\ source = "active"
    /\ TimerDue(clock)
    /\ flushed' = <<Batch(buffer, "timer", window_start)>>
    /\ buffer' = <<>>
    /\ window_start' = clock
    /\ UNCHANGED <<clock, source, bursts>>
    /\ UNCHANGED <<qvars, pvars, xvars>>

\* the upstream completes
BatchOnCompleted ==
    /\ source = "active"
    /\ flushed' = <<Batch(buffer, "completed", window_start)>>
    /\ buffer' = <<>>
    /\ source' = "completed"
    /\ UNCHANGED <<clock, window_start, bursts>>
    /\ UNCHANGED <<qvars, pvars, xvars>>

BatchNext ==
    \/ BatchTick
    \/ BatchOnNext
    \/ BatchTimer
    \/ BatchOnCompleted

SpecBatch == BatchInit /\ [][BatchNext]_vars

----------------------------------------------------------------------------
(* Claims about the windowed-batch stage, checked under SpecBatch *)

Batches == {flushed[i] : i \in 1..Len(flushed)}

\* C9 as stated: a batch is flushed exactly when 3 time-units have elapsed
\* since its first item was buffered or when it holds 50 items; so a batch
\* of fewer than 50 items that the timer flushes has held its first item for
\* 3 time-units.
C9_AsStated ==
    \A b \in Batches :
        (b.cause = "timer" /\ Len(b.items) > 0) => b.at - b.items[1].at = 3

\* C9 amended: a batch is flushed exactly when 3 time-units have elapsed
\* since its window was opened (at subscription or at the previous flush),
\* when it holds 50 items, or when the upstream completes, whichever happens
\* first; a batch flushed by the timer or by completion may be empty; no
\* batch holds more than 50 items and no buffered item waits more than 3
\* time-units.
C9_WindowedBatch ==
    /\ \A b \in Batches :
        /\ Len(b.items) <= 50
        /\ b.cause = "count" <=> Len(b.items) = 50
        /\ b.cause = "timer" => b.at = b.opened + 3
        /\ b.at <= b.opened + 3
        /\ \A i \in 1..Len(b.items) : b.at - b.items[i].at <= 3
    /\ Len(buffer) < 50
    /\ clock <= window_start + 3
    /\ \A i \in 1..Len(buffer) :
        /\ clock - buffer[i].at <= 3
        /\ buffer[i].at >= window_start

C9_Witness ==
    \E b \in Batches :
        /\ b.cause = "timer" /\ Len(b.items) = 26
        /\ b.items[1].at = b.opened + 1 /\ b.items[26].at = b.at

C9_WitnessCount ==
    /\ \E b \in Batches : b.cause = "count" /\ b.at < b.opened + 3
    /\ Len(buffer) > 0
    /\ clock = window_start + 2

----------------------------------------------------------------------------
(* The operations of GHClient on an OrgRepo                                *)
(* (src/gh_meta_client.py:341-426), with the queries they build            *)
(* (src/gh_meta_client.py:180-301).  A cursor is a position in the list    *)
(* the remote API pages through; 0 is None, no cursor.                     *)

Min(a, b) == IF a < b THEN a ELSE b

Range(f) == {f[i] : i \in DOMAIN f}

\* the languages the remote API may list for a repository
Langs == <<"JavaScript", "Python">>

Dep(name, manager) == [packageName |-> name, packageManager |-> manager]

\* the dependency nodes the remote API lists for manifest m of repository r
DepPage(r, m) == <<Dep(<<r, m, "a">>, "NPM"), Dep(<<r, m, "b">>, "PIP")>>

\* repo_langs_query(schema, org, repo, first=first): gh_meta_client.py:180-205
repo_langs_query(first) == [first |-> first, after |-> 0]

\* repo_manifests_query(schema, org, repo, first=first):
\* gh_meta_client.py:208-249
repo_manifests_query(first) == [first |-> first, after |-> 0]

\* repo_manifest_deps_query: gh_meta_client.py:252-301; the manifest list is
\* queried after manifest_after only when after, the cursor of the
\* dependencies, is given
repo_manifest_deps_query(manifest_first, manifest_after, after) ==
    IF after = 0
    THEN [first |-> manifest_first, after |-> 0]
    ELSE [first |-> manifest_first, after |-> manifest_after]

\* the page of a list that the remote API returns to a query
Page(list, query) ==
    LET lo == Min(query.after, Len(list))
        hi == Min(query.after + query.first, Len(list))
    IN  [shape |-> "page",
         edges |-> SubSeq(list, lo + 1, hi),
         hasNextPage |-> hi < Len(list),
         endCursor |-> IF hi > lo THEN hi ELSE 0]

\* what async_query returns: None (NotFound, or no attempt left), a result
\* whose repository is null, or a result with a page
Shapes == {"None", "null", "page"}

\* what async_query returns instead of a page
NoPage(shape) == [shape |-> shape, edges |-> <<>>, hasNextPage |-> FALSE, endCursor |-> 0]

\* the manifest edges of a page with their dependency nodes
WithDeps(r, page) ==
    [page EXCEPT !.edges = [i \in DOMAIN page.edges |->
                              [id |-> page.edges[i], nodes |-> DepPage(r, page.edges[i])]]]

\* org_repo.languages.extend(...), org_repo.dep_files.extend(...):
\* gh_meta_client.py:355, 375
AccumulateList(list, edges) == list \o edges

\* org_repo.dep_file_deps[dep_file.id] = manifest_edge.node.dependencies.nodes:
\* gh_meta_client.py:413-415
ExtendDeps(deps, m, nodes) ==
    [deps EXCEPT ![m] = [set |-> TRUE, nodes |-> deps[m].nodes \o nodes]]

SetDeps(deps, m, nodes) == [deps EXCEPT ![m] = [set |-> TRUE, nodes |-> nodes]]

\* if manifest_edge.node.id == dep_file.id: gh_meta_client.py:412
AnyEdge(id, m) == TRUE

EdgeMatches(id, m) == id = m

Returned(o) == [org_repo |-> o, raised |-> "none"]

Raised(o, exception) == [org_repo |-> o, raised |-> exception]

\* GHClient.get_org_repo_langs after its query: gh_meta_client.py:349-356
get_org_repo_langs(o, repo) ==
    IF repo.shape \in {"None", "null"} THEN Raised(o, "Exception")
    ELSE IF repo.hasNextPage THEN Raised(o, "AssertionError")
    ELSE Returned([o EXCEPT !.languages = AccumulateList(o.languages, repo.edges)])

\* GHClient.get_dep_files after its query: gh_meta_client.py:370-381;
\* repo.repository of None, and dependencyGraphManifests of a null
\* repository, raise AttributeError
get_dep_files(o, repo, page_size) ==
    IF repo.shape \in {"None", "null"} THEN Raised(o, "AttributeError")
    ELSE IF repo.hasNextPage THEN Raised(o, "AssertionError")
    ELSE Returned([o EXCEPT
            !.dep_files = AccumulateList(o.dep_files, repo.edges),
            !.dep_file_query_params =
                [m \in Manifests |->
                   IF m \in Range(repo.edges)
                   THEN [set |-> TRUE, cursor |-> repo.endCursor, first |-> page_size]
                   ELSE o.dep_file_query_params[m]]])

\* the loop of gh_meta_client.py:411-415 over the manifest edges of the page
RECURSIVE deps_of_edges(_, _, _, _)
deps_of_edges(deps, edges, i, m) ==
    IF i > Len(edges) THEN deps
    ELSE deps_of_edges(IF EdgeMatches(edges[i].id, m)
                       THEN SetDeps(deps, m, edges[i].nodes)
                       ELSE deps,
                       edges, i + 1, m)

\* GHClient.get_deps after its query: gh_meta_client.py:408-426; line 421
\* reads the entry of the manifest, which raises KeyError when there is none
get_deps(o, m, repo) ==
    IF repo.shape \in {"None", "null"} THEN Raised(o, "AttributeError")
    ELSE LET deps == deps_of_edges(o.dep_file_deps, repo.edges, 1, m)
         IN  IF deps[m].set
             THEN Returned([o EXCEPT !.dep_file_deps = deps])
             ELSE Raised([o EXCEPT !.dep_file_deps = deps], "KeyError")

\* the lists the remote API holds for the repository
RemoteLanguages == SubSeq(Langs, 1, remote.languages)

RemoteManifests == [i \in 1..remote.manifests |-> i]

Remotes == [languages : 0..Len(Langs), manifests : 0..MaxManifests]

\* what the remote API and async_query answer to a query of a list
Answer(shape, list, query) == IF shape = "page" THEN Page(list, query) ELSE NoPage(shape)

\* GHClient(auth_token, lang_page_size, dep_file_page_size, dep_page_size)
\* and OrgRepo(org, repo): gh_meta_client.py:305-315, rx_try.py:27-38
ClientInit ==
    /\ BatchIdle
    /\ NormalizerIdle
    /\ GroupIdle
    /\ GraphIdle
    /\ PipelineIdle
    /\ pc = "done"
    /\ try_num = 0
    /\ result = "unset"
    /\ outcome = NoOutcome
    /\ now = 0
    /\ calls = 0
    /\ sleeps = 0
    /\ sleep_kind = "none"
    /\ sleep_seconds = 0
    /\ sleep_try = -1
    /\ sleep_now = 0
    /\ retry_after = NoHeader
    /\ reset_at = NoHeader
    /\ lang_page_size \in 1..MaxPageSize
    /\ dep_file_page_size \in 1..MaxPageSize
    /\ remote \in Remotes
    /\ org_repo = OrgRepo
    /\ call = NoCall
    /\ prev = NoCall
    /\ ncalls = 0

\* a call of an operation has ended
Called(op, m, query, repo, out) ==
    /\ org_repo' = out.org_repo
    /\ call' = [op |-> op, m |-> m, raised |-> out.raised, query |-> query,
                repo |-> repo, before |-> org_repo]
    /\ prev' = call
    /\ ncalls' = ncalls + 1
    /\ UNCHANGED <<lang_page_size, dep_file_page_size, remote>>
    /\ UNCHANGED <<qvars, bvars, pvars, nvars, rvars, gvars>>

\* await ghc.get_org_repo_langs(org_repo): gh_meta_client.py:341-356
CallGetOrgRepoLangs ==
    /\ ncalls < MaxCalls
    /\ \E shape \in Shapes :
        LET query == repo_langs_query(lang_page_size)
            repo == Answer(shape, RemoteLanguages, query)
        IN  Called("get_org_repo_langs", 0, query, repo, get_org_repo_langs(org_repo, repo))

\* await ghc.get_dep_files(org_repo): gh_meta_client.py:358-381
CallGetDepFiles ==
    /\ ncalls < MaxCalls
    /\ \E shape \in Shapes :
        LET query == repo_manifests_query(dep_file_page_size)
            repo == Answer(shape, RemoteManifests, query)
        IN  Called("get_dep_files", 0, query, repo,
                   get_dep_files(org_repo, repo, dep_file_page_size))

\* await ghc.get_deps((org_repo, dep_file)) for a manifest of
\* org_repo.iter_dep_files(): gh_meta_client.py:383-426
CallGetDeps(m) ==
    /\ ncalls < MaxCalls
    /\ m \in Range(org_repo.dep_files)
    /\ \E shape \in Shapes :
        LET query_params == org_repo.dep_file_query_params[m]
            query == repo_manifest_deps_query(query_params.first, query_params.cursor, 0)
            repo == WithDeps(1, Answer(shape, RemoteManifests, query))
        IN  Called("get_deps", m, query, repo, get_deps(org_repo, m, repo))

\* the repository changes at the remote API between two calls
RemoteChanges ==
    /\ ncalls < MaxCalls
    /\ remote' \in Remotes \ {remote}
    /\ UNCHANGED <<lang_page_size, dep_file_page_size, org_repo, call, prev, ncalls>>
    /\ UNCHANGED <<qvars, bvars, pvars, nvars, rvars, gvars>>

ClientNext ==
    \/ CallGetOrgRepoLangs
    \/ CallGetDepFiles
    \/ \E m \in Manifests : CallGetDeps(m)
    \/ RemoteChanges

SpecClient == ClientInit /\ [][ClientNext]_vars

----------------------------------------------------------------------------
(* Claims about the operations of GHClient, checked under SpecClient *)

\* the latest call and the one before it were the same operation on the same
\* manifest, got the same result from the remote API, and both returned
SameCallTwice ==
    /\ call.op # "none"
    /\ prev.op = call.op
    /\ prev.m = call.m
    /\ prev.repo = call.repo
    /\ prev.raised = "none"
    /\ call.raised = "none"

\* the edges of a page hold the edge of manifest m
Listed(edges, m) == \E i \in DOMAIN edges : edges[i].id = m

\* the dependency nodes of the edge of manifest m among the edges of a page
NodesOf(edges, m) ==
    LET i == CHOOSE i \in DOMAIN edges : edges[i].id = m IN edges[i].nodes

\* C11: each of get_org_repo_langs, get_dep_files and get_deps, when the
\* query yields no result or a null repository, fails with the same error,
\* the one get_org_repo_langs raises, and leaves the accumulators of the
\* OrgRepo unchanged.
C11_SameUpstreamFailure ==
    call.repo.shape \in {"None", "null"} =>
        /\ call.raised = "Exception"
        /\ org_repo = call.before

\* C12: get_org_repo_langs and get_dep_files are idempotent: after the
\* second of two invocations with the same response, languages, dep_files
\* and dep_file_query_params equal their values after the first.
C12_Idempotent ==
    SameCallTwice /\ call.op \in {"get_org_repo_langs", "get_dep_files"} =>
        /\ org_repo.languages = call.before.languages
        /\ org_repo.dep_files = call.before.dep_files
        /\ org_repo.dep_file_query_params = call.before.dep_file_query_params

\* C13: after the second of two calls of get_deps for the same manifest with
\* the same response, dep_file_deps of the manifest equals its value after
\* the first call: the nodes of the response, not extended or duplicated.
C13_DepsOverwritten ==
    SameCallTwice /\ call.op = "get_deps" =>
        /\ org_repo.dep_file_deps[call.m] = call.before.dep_file_deps[call.m]
        /\ Listed(call.repo.edges, call.m) =>
              org_repo.dep_file_deps[call.m].nodes = NodesOf(call.repo.edges, call.m)

C13_Witness ==
    /\ SameCallTwice
    /\ call.op = "get_deps"
    /\ Listed(call.repo.edges, call.m)
    /\ Len(org_repo.dep_file_deps[call.m].nodes) = 2

\* C14: get_org_repo_langs and get_dep_files, given a page, complete
\* normally whether or not the page reports a further page, having recorded
\* the entries of that page, at most the page size of them.
C14_SinglePageCompletes ==
    call.op \in {"get_org_repo_langs", "get_dep_files"} /\ call.repo.shape = "page" =>
        /\ call.raised = "none"
        /\ Len(call.repo.edges) <= call.query.first
        /\ org_repo.languages \o org_repo.dep_files =
               call.before.languages \o call.before.dep_files \o call.repo.edges

\* C15: after get_dep_files returns, every manifest of dep_files has an
\* entry in dep_file_query_params that holds the cursor and the page size
\* with which the manifest list was queried; get_deps for a manifest issues
\* its query with exactly the recorded cursor and page size.
C15_QueryParamsReachManifest ==
    /\ call.op = "get_dep_files" /\ call.raised = "none" =>
          \A m \in Range(org_repo.dep_files) :
              /\ org_repo.dep_file_query_params[m].set
              /\ org_repo.dep_file_query_params[m].first = call.query.first
              /\ org_repo.dep_file_query_params[m].cursor = call.query.after
    /\ call.op = "get_deps" =>
          /\ call.query.first = call.before.dep_file_query_params[call.m].first
          /\ call.query.after = call.before.dep_file_query_params[call.m].cursor

\* C16: get_deps for manifest m changes only dep_file_deps[m], which it sets
\* to the dependency nodes of the returned edge whose id is m (and leaves as
\* it was when it raises or no returned edge has that id); the entries of
\* the other manifests, languages, dep_files and dep_file_query_params are
\* left unchanged, however many manifests the returned page holds.
C16_GetDepsFrame ==
    call.op = "get_deps" =>
        /\ org_repo.languages = call.before.languages
        /\ org_repo.dep_files = call.before.dep_files
        /\ org_repo.dep_file_query_params = call.before.dep_file_query_params
        /\ \A m \in Manifests \ {call.m} :
              org_repo.dep_file_deps[m] = call.before.dep_file_deps[m]
        /\ IF call.raised = "none" /\ Listed(call.repo.edges, call.m)
           THEN org_repo.dep_file_deps[call.m] =
                    [set |-> TRUE, nodes |-> NodesOf(call.repo.edges, call.m)]
           ELSE org_repo.dep_file_deps[call.m] = call.before.dep_file_deps[call.m]

C16_Witness ==
    /\ call.op = "get_deps"
    /\ call.raised = "none"
    /\ call.m = 1
    /\ Len(call.repo.edges) = 2
    /\ org_repo.dep_file_deps[1].nodes = DepPage(1, 1)
    /\ ~org_repo.dep_file_deps[2].set

----------------------------------------------------------------------------
(* The pipeline of main (src/rx_try.py:109-178) over GHClient              *)
(* (src/gh_meta_client.py:304-426) and npmsio_client.async_main.           *)
(* map_async(f) is flat_map over rx.from_future(asyncio.create_task(f(x))):*)
(* every item starts a task; a task that returns passes its value          *)
(* downstream in a later callback of the loop; a task that raises ends the *)
(* whole stream by on_error, and the subscription, once disposed, cancels  *)
(* the futures still pending.  The loop runs its ready callbacks in the    *)
(* order they were scheduled, so a task that was created runs to its first *)
(* await before any later response is handled: but for the tasks of the    *)
(* seeds, which may find the client uninitialised, the creation of a task  *)
(* and its first step are one step here; so are the return of a value and  *)
(* its passing downstream where nothing the latter reads can change in     *)
(* between (all but get_deps, whose iter_dep_file_deps reads what the      *)
(* other get_deps tasks write).  A query is one call here, which returns a *)
(* result or ends async_query with None: its attempts are those of         *)
(* SpecQuery.  The fetches take arbitrarily long, so the window of the     *)
(* windowed-batch stage may time out between any two steps.                *)

\* TCPConnector(limit=4): src/gh_meta_client.py:28, src/npmsio_client.py:13
limit == 4

Unfinished(p) == p \in {"created", "introspect", "queued", "inflight", "returned"}

\* the calls of the tasks tk that hold a connection of session s
InFlightOn(tk, s) ==
    Cardinality({t \in TaskIds : tk[t].pc \in {"inflight", "introspect"}
                                 /\ tk[t].exec = s})

\* a connection that was released goes to a request waiting for one
Admit(tk) ==
    LET waiting == {t \in TaskIds : tk[t].pc = "queued"
                                    /\ InFlightOn(tk, tk[t].exec) < limit}
    IN  IF waiting = {} THEN {tk}
        ELSE {[tk EXCEPT ![t].pc = "inflight"] : t \in waiting}

\* the first await of async_query in a task (gh_meta_client.py:37): the
\* request takes a connection of the session's pool, or waits for one
StartQuery(tk, t, session) ==
    [tk EXCEPT ![t] = [pc |-> IF InFlightOn(tk, session) < limit
                              THEN "inflight" ELSE "queued",
                       exec |-> session]]

PipelineInit ==
    /\ BatchIdle
    /\ ClientIdle
    /\ NormalizerIdle
    /\ GroupIdle
    /\ GraphIdle
    /\ pc = "done"
    /\ try_num = 0
    /\ result = "unset"
    /\ outcome = NoOutcome
    /\ now = 0
    /\ calls = 0
    /\ sleeps = 0
    /\ sleep_kind = "none"
    /\ sleep_seconds = 0
    /\ sleep_try = -1
    /\ sleep_now = 0
    /\ retry_after = NoHeader
    /\ reset_at = NoHeader
    /\ stream = "unsubscribed"
    /\ loop = "running"
    /\ cause = [kind |-> "none", repo |-> 0]
    /\ tasks = [t \in TaskIds |-> NoTask]
    /\ org_repos = [r \in Repos |-> OrgRepo]
    /\ ghc = [session |-> 0, schema |-> FALSE]
    /\ sessions = 0
    /\ introspections = 0
    /\ schema_file \in BOOLEAN
    /\ cached = schema_file
    /\ closed = {}
    /\ close_is_coroutine \in BOOLEAN
    /\ closes = [created |-> 0, run |-> 0]
    /\ scores = <<>>
    /\ received = 0

\* the callbacks the loop has ready run before a response or a timer is
\* handled
NoneCreated == \A t \in TaskIds : tasks[t].pc # "created"

\* a task raises: on_error reaches the subscriber (rx_try.py:172), which only
\* prints; the disposed subscription cancels the pending futures
Raise(t, kind) ==
    /\ stream' = "error"
    /\ cause' = [kind |-> kind, repo |-> t[2]]
    /\ tasks' = [u \in TaskIds |->
                   IF u = t THEN [tasks[u] EXCEPT !.pc = "raised"]
                   ELSE IF Unfinished(tasks[u].pc)
                   THEN [tasks[u] EXCEPT !.pc = "cancelled"]
                   ELSE tasks[u]]
    /\ scores' = [i \in DOMAIN scores |->
                    IF scores[i].pc = "inflight"
                    THEN [scores[i] EXCEPT !.pc = "cancelled"]
                    ELSE scores[i]]
    /\ UNCHANGED <<loop, org_repos, ghc, sessions, introspections, schema_file,
                   cached, closed, close_is_coroutine, closes, received>>
    /\ UNCHANGED <<qvars, bvars, xvars>>

\* npmsio_scores.subscribe and loop.run_forever (rx_try.py:170-177):
\* from_iterable passes every org_repo to map_async(ghc.get_org_repo_langs),
\* and the windowed-batch stage opens its first window
Subscribe ==
    /\ stream = "unsubscribed"
    /\ stream' = "active"
    /\ tasks' = [t \in TaskIds |->
                   IF t[1] = "langs" THEN [NoTask EXCEPT !.pc = "created"] ELSE NoTask]
    /\ UNCHANGED <<loop, cause, org_repos, ghc, sessions, introspections,
                   schema_file, cached, closed, close_is_coroutine, closes,
                   scores, received>>
    /\ UNCHANGED <<qvars, bvars, xvars>>

\* a task of get_org_repo_langs runs from its start to its first await:
\* _async_init (gh_meta_client.py:317-334) and then either the introspection
\* query (line 121) or the query of async_query (line 37)
StartTask(t) ==
    /\ loop = "running"
    /\ tasks[t].pc = "created"
    /\ IF ghc.session # 0 /\ ghc.schema
       THEN /\ UNCHANGED <<ghc, sessions, introspections>>
            /\ tasks' = StartQuery(tasks, t, ghc.session)
       ELSE /\ sessions' = sessions + 1
            /\ IF schema_file
               THEN /\ ghc' = [session |-> sessions + 1, schema |-> TRUE]
                    /\ tasks' = StartQuery(tasks, t, sessions + 1)
                    /\ UNCHANGED introspections
               ELSE /\ ghc' = [session |-> sessions + 1, schema |-> FALSE]
                    /\ introspections' = introspections + 1
                    /\ tasks' = [tasks EXCEPT ![t] =
                                   [pc |-> "introspect", exec |-> sessions + 1]]
    /\ UNCHANGED <<stream, loop, cause, org_repos, schema_file, cached, closed,
                   close_is_coroutine, closes, scores, received>>
    /\ UNCHANGED <<qvars, bvars, xvars>>

\* the introspection query returns: the schema is written to the file and
\* kept (gh_meta_client.py:122-124, 331), and the task goes on to
\* async_query with the client's executor
IntrospectionReturns(t) ==
    /\ loop = "running"
    /\ NoneCreated
    /\ tasks[t].pc = "introspect"
    /\ tasks[t].exec \notin closed
    /\ schema_file' = TRUE
    /\ ghc' = [ghc EXCEPT !.schema = TRUE]
    /\ tasks' = StartQuery([tasks EXCEPT ![t].pc = "none"], t, ghc.session)
    /\ UNCHANGED <<stream, loop, cause, org_repos, sessions, introspections, cached,
                   closed, close_is_coroutine, closes, scores, received>>
    /\ UNCHANGED <<qvars, bvars, xvars>>

\* the introspection query raises: nothing catches it (gh_meta_client.py:121)
IntrospectionRaises(t) ==
    /\ loop = "running"
    /\ NoneCreated
    /\ tasks[t].pc = "introspect"
    /\ Raise(t, "schema")

\* a request on a closed session raises an error async_query does not catch
SessionClosedError(t) ==
    /\ loop = "running"
    /\ NoneCreated
    /\ tasks[t].pc \in {"introspect", "queued", "inflight"}
    /\ tasks[t].exec \in closed
    /\ Raise(t, "session")

\* what the remote API lists: one page of languages, a page of manifests,
\* the dependency nodes of a manifest
LanguagePages == {<<"JavaScript", "Python">>}

ManifestPages == {[i \in 1..k |-> i] : k \in 0..MaxManifests}

\* every fetch of every repository has passed its value downstream
UpstreamDone(tk) ==
    /\ \A t \in TaskIds : tk[t].pc \in {"none", "emitted"}
    /\ \A r \in Repos : tk[<<"langs", r, 0>>].pc = "emitted"
                        /\ tk[<<"dep_files", r, 0>>].pc = "emitted"

\* the task of npmsio_client.async_main for a batch (rx_try.py:154-156),
\* which opens a session of its own and posts the names
\* (npmsio_client.py:29-31, 22-24)
NewScore(b) ==
    [names |-> [i \in DOMAIN b.items |-> b.items[i].name], cause |-> b.cause,
     pc |-> "inflight"]

\* the items of one callback reach the windowed-batch stage, every batch it
\* closes starts a scoring task, and the stage is completed when no fetch is
\* left
EmitDownstream(tk, items) ==
    LET w == OnNextAll(buffer, window_start, items, <<>>)
        done == UpstreamDone(tk)
        batches == IF done
                   THEN Append(w.batches, Batch(w.buffer, "completed", w.opened))
                   ELSE w.batches
    IN  /\ tasks' \in Admit(tk)
        /\ buffer' = IF done THEN <<>> ELSE w.buffer
        /\ window_start' = w.opened
        /\ flushed' = IF batches = <<>> THEN flushed ELSE batches
        /\ source' = IF done THEN "completed" ELSE source
        /\ scores' = scores \o [i \in DOMAIN batches |-> NewScore(batches[i])]
        /\ UNCHANGED <<clock, bursts>>
        /\ UNCHANGED <<stream, loop, cause, ghc, sessions, introspections,
                       schema_file, cached, closed, close_is_coroutine, closes,
                       received>>
        /\ UNCHANGED <<qvars, xvars>>

\* async_query returns the result to get_org_repo_langs
\* (gh_meta_client.py:348-356), whose value reaches
\* map_async(ghc.get_dep_files) (rx_try.py:127-128)
GetOrgRepoLangsReturns(r) ==
    LET t == <<"langs", r, 0>>
    IN  /\ loop = "running"
        /\ NoneCreated
        /\ tasks[t].pc = "inflight"
        /\ tasks[t].exec \notin closed
        /\ \E shape \in Shapes \cup {"hasNextPage"} :
            IF shape \in {"None", "null"} THEN Raise(t, "fetch")
            ELSE IF shape = "hasNextPage" THEN Raise(t, "assert")
            ELSE \E edges \in LanguagePages :
                    /\ org_repos' = [org_repos EXCEPT ![r] =
                         get_org_repo_langs(@, Page(edges, repo_langs_query(50))).org_repo]
                    /\ EmitDownstream(
                         StartQuery([tasks EXCEPT ![t].pc = "emitted"],
                                    <<"dep_files", r, 0>>, ghc.session), <<>>)

\* the tasks of get_deps for the manifests of OrgRepo.iter_dep_files
\* (rx_try.py:40-43, 129-133), started one after the other
RECURSIVE StartDeps(_, _, _, _)
StartDeps(tk, r, dep_files, i) ==
    IF i > Len(dep_files) THEN tk
    ELSE StartDeps(StartQuery(tk, <<"deps", r, dep_files[i]>>, ghc.session),
                   r, dep_files, i + 1)

\* async_query returns the result to get_dep_files
\* (gh_meta_client.py:370-381), whose value reaches the iteration of
\* iter_dep_files and map_async(ghc.get_deps)
GetDepFilesReturns(r) ==
    LET t == <<"dep_files", r, 0>>
    IN  /\ loop = "running"
        /\ NoneCreated
        /\ tasks[t].pc = "inflight"
        /\ tasks[t].exec \notin closed
        /\ \E shape \in Shapes \cup {"hasNextPage"} :
            IF shape \in {"None", "null"} THEN Raise(t, "fetch")
            ELSE IF shape = "hasNextPage" THEN Raise(t, "assert")
            ELSE \E edges \in ManifestPages :
                    /\ org_repos' = [org_repos EXCEPT ![r] =
                         get_dep_files(@, Page(edges, repo_manifests_query(3)), 3).org_repo]
                    /\ EmitDownstream(
                         StartDeps([tasks EXCEPT ![t].pc = "emitted"], r,
                                   org_repos'[r].dep_files, 1), <<>>)

\* async_query returns the result to get_deps (gh_meta_client.py:408-426):
\* the page lists the manifest with its dependency nodes, or no longer lists
\* it, and then line 421 finds no entry
GetDepsReturns(r, m) ==
    LET t == <<"deps", r, m>>
    IN  /\ loop = "running"
        /\ NoneCreated
        /\ tasks[t].pc = "inflight"
        /\ tasks[t].exec \notin closed
        /\ \E shape \in Shapes \cup {"unlisted"} :
            IF shape \in {"None", "null", "unlisted"} THEN Raise(t, "fetch")
            ELSE /\ tasks' \in Admit([tasks EXCEPT ![t].pc = "returned"])
                 /\ org_repos' = [org_repos EXCEPT ![r] =
                      get_deps(@, m, WithDeps(r, Page(org_repos[r].dep_files,
                          repo_manifest_deps_query(@.dep_file_query_params[m].first,
                                                   @.dep_file_query_params[m].cursor,
                                                   0)))).org_repo]
                 /\ UNCHANGED <<stream, loop, cause, ghc, sessions, introspections,
                                schema_file, cached, closed, close_is_coroutine,
                                closes, scores, received>>
                 /\ UNCHANGED <<qvars, bvars, xvars>>

\* OrgRepo.iter_dep_file_deps (rx_try.py:45-51): the dependencies of every
\* manifest of dep_files that has an entry in dep_file_deps
RECURSIVE iter_dep_file_deps(_, _)
iter_dep_file_deps(repo, i) ==
    IF i > Len(repo.dep_files) THEN <<>>
    ELSE (IF repo.dep_file_deps[repo.dep_files[i]].set
          THEN repo.dep_file_deps[repo.dep_files[i]].nodes
          ELSE <<>>) \o iter_dep_file_deps(repo, i + 1)

\* rx_try.py:137-151: the NPM dependencies, as the items of the buffer
RECURSIVE npm_deps(_)
npm_deps(deps) ==
    IF deps = <<>> THEN <<>>
    ELSE (IF Head(deps).packageManager = "NPM"
          THEN <<Item(Head(deps).packageName, clock)>>
          ELSE <<>>) \o npm_deps(Tail(deps))

\* the value of get_deps reaches the iteration of iter_dep_file_deps, the
\* filter and the windowed-batch stage (rx_try.py:134-152)
EmitDeps(r, m) ==
    /\ loop = "running"
    /\ tasks[<<"deps", r, m>>].pc = "returned"
    /\ UNCHANGED org_repos
    /\ EmitDownstream([tasks EXCEPT ![<<"deps", r, m>>].pc = "emitted"],
                      npm_deps(iter_dep_file_deps(org_repos[r], 1)))

\* how many windows have timed out in the run
Timers == Cardinality({i \in DOMAIN scores : scores[i].cause = "timer"})

\* the timer of the open window fires in the run: the window, empty or not,
\* starts a scoring task
RunTimer ==
    /\ stream = "active"
    /\ source = "active"
    /\ NoneCreated
    /\ Timers < MaxTimers
    /\ flushed' = <<Batch(buffer, "timer", window_start)>>
    /\ buffer' = <<>>
    /\ scores' = Append(scores, NewScore(Batch(buffer, "timer", window_start)))
    /\ UNCHANGED <<clock, window_start, source, bursts>>
    /\ UNCHANGED <<stream, loop, cause, tasks, org_repos, ghc, sessions,
                   introspections, schema_file, cached, closed, close_is_coroutine,
                   closes, received>>
    /\ UNCHANGED <<qvars, xvars>>

\* the scoring endpoint answers (npmsio_client.py:24-32) and the scores reach
\* do_action(do_async(ghc.close)) and on_next (rx_try.py:157, 160-162): the
\* task of GHClient.close runs self.session.close()
\* (gh_meta_client.py:336-339), unless these were the last scores, after
\* which on_completed stops the loop (rx_try.py:166-168)
ScoreReturns(i) ==
    /\ loop = "running"
    /\ scores[i].pc = "inflight"
    /\ scores' = [scores EXCEPT ![i].pc = "emitted"]
    /\ received' = received + 1
    /\ IF source = "completed" /\ \A j \in DOMAIN scores : j # i => scores[j].pc = "emitted"
       THEN /\ stream' = "completed"
            /\ loop' = "stopped"
            /\ closes' = [closes EXCEPT !.created = closes.created + 1]
            /\ UNCHANGED closed
       ELSE /\ UNCHANGED <<stream, loop>>
            /\ closes' = [created |-> closes.created + 1, run |-> closes.run + 1]
            /\ closed' = IF close_is_coroutine THEN closed ELSE closed \cup {ghc.session}
    /\ UNCHANGED <<cause, tasks, org_repos, ghc, sessions, introspections,
                   schema_file, cached, close_is_coroutine>>
    /\ UNCHANGED <<qvars, bvars, xvars>>

PipelineNext ==
    \/ Subscribe
    \/ \E t \in TaskIds : StartTask(t)
    \/ \E t \in TaskIds : IntrospectionReturns(t)
    \/ \E t \in TaskIds : IntrospectionRaises(t)
    \/ \E t \in TaskIds : SessionClosedError(t)
    \/ \E r \in Repos : GetOrgRepoLangsReturns(r)
    \/ \E r \in Repos : GetDepFilesReturns(r)
    \/ \E r \in Repos, m \in Manifests : GetDepsReturns(r, m)
    \/ \E r \in Repos, m \in Manifests : EmitDeps(r, m)
    \/ RunTimer
    \/ \E i \in DOMAIN scores : ScoreReturns(i)

SpecPipeline == PipelineInit /\ [][PipelineNext]_vars

----------------------------------------------------------------------------
(* Claims about the pipeline, checked under SpecPipeline *)

\* the tasks of the fetches of repository r
TasksOf(r) == {t \in TaskIds : t[2] = r}

\* the outbound network calls in flight: the queries and introspection
\* queries of the GHClient sessions and the posts of the scoring sessions
InFlight ==
    Cardinality({t \in TaskIds : tasks[t].pc \in {"inflight", "introspect"}})
    + Cardinality({i \in DOMAIN scores : scores[i].pc = "inflight"})

\* C7: a failure of a fetch stage for one repository (NotFound, a null
\* repository, no attempt left) fails only that repository's input: no fetch
\* of another seeded repository is cut short by it, and the stream goes on;
\* only a failure of the schema fetch may end the whole run.
C7_FetchFailureIsolated ==
    /\ stream = "error" => cause.kind # "fetch"
    /\ \A r \in Repos : \A t \in TasksOf(r) :
          tasks[t].pc = "cancelled" => cause.kind = "schema" \/ cause.repo = r

\* C8: in every reachable state of a run at most 4 outbound network calls
\* are in flight at once across the network-bound stages of the pipeline.
C8_AtMost4InFlight == InFlight <= 4

\* C10: within one run the schema is obtained once: the introspection query
\* is issued at most once, and never when the cached schema artifact exists;
\* when the artifact is absent the fetched schema is persisted; the client
\* creates only one session and one executor.
C10_SchemaObtainedOnce ==
    /\ introspections <= 1
    /\ cached => introspections = 0
    /\ ghc.schema => schema_file
    /\ sessions <= 1

\* =====================================================================
\* The postprocess pipeline (src/fpr/pipelines/postprocess.py)
\* =====================================================================

\* Python's None as the value of a field of a dict
None == "None"

\* get_in(d, [key], default) of fpr.serialize_util: the member of d under
\* key, the default where d has no such member
get_in(member, default) == IF member.state = "absent" THEN default ELSE member

\* get_in(d, [key, field]): None where d[key] is absent or null
get_in_path(member, field) ==
    IF member.state = "value" THEN get_in(member.value[field], Null(0))
    ELSE Null(0)

\* the Python value of a member: None for a null
PyValue(member) == IF member.state = "value" THEN member.value ELSE None

\* sum(d.values()) of a dict d
RECURSIVE SumOver(_, _)
SumOver(d, keys) ==
    IF keys = {} THEN 0
    ELSE LET k == CHOOSE x \in keys : TRUE
         IN d[k] + SumOver(d, keys \ {k})

sum_values(d) == SumOver(d, DOMAIN d)

\* NPMPackage of fpr.models.nodejs: a name and the names it depends on
NPMPackage(name, dependencies) == [name |-> name, dependencies |-> dependencies]

\* flatten_deps of fpr.models.nodejs: the packages of the tree of an npm
\* list, the root last
flatten_deps(parsed_stdout) ==
    LET names == get_in(parsed_stdout.dependencies, Value(<<>>)).value
    IN [i \in 1..Len(names) |-> NPMPackage(names[i], <<>>)]
           \o <<NPMPackage("root", names)>>

\* get_graph_stats(npm_packages_to_networkx_digraph(deps)) of fpr.graph_util
get_graph_stats(deps) == [node_count |-> Len(deps)]

\* iter_jsonlines of fpr.serialize_util: json.loads of each line, a
\* JSONDecodeError where a line is not JSON
iter_jsonlines(lines) ==
    IF \E i \in 1..Len(lines) : ~lines[i].ok
    THEN [raised |-> "JSONDecodeError", lines |-> <<>>]
    ELSE [raised |-> "none", lines |-> lines]

\* extract_fields(line["task"], [...]) of fpr.serialize_util: the fields
\* of the task that the entry of the task starts from
extract_fields(task) == [command |-> task.command, name |-> task.name]

\* what parse_stdout_as_json gives: None or the parsed document
NotParsed == [raised |-> "none", none |-> TRUE, doc |-> JSONDecodeError, lines |-> <<>>]

\* postprocess.py:131-141, the JSONDecodeError left uncaught
parse_stdout_as_json_uncaught(stdout) ==
    IF stdout.none THEN NotParsed
    ELSE IF ~stdout.doc.ok THEN [NotParsed EXCEPT !.raised = "JSONDecodeError"]
    ELSE [NotParsed EXCEPT !.none = FALSE, !.doc = stdout.doc]

\* postprocess.py:131-141
parse_stdout_as_json(stdout) ==
    IF stdout.none THEN NotParsed
    ELSE IF ~stdout.doc.ok THEN NotParsed
    ELSE [NotParsed EXCEPT !.none = FALSE, !.doc = stdout.doc]

\* postprocess.py:144-157; every JSON value of the model is an object, so
\* isinstance(line, dict) keeps every line
parse_stdout_as_jsonlines(stdout) ==
    IF stdout.none THEN NotParsed
    ELSE LET parsed == iter_jsonlines(stdout.lines)
         IN IF parsed.raised = "JSONDecodeError" THEN NotParsed
            ELSE [NotParsed EXCEPT !.none = FALSE, !.lines = parsed.lines]

\* postprocess.py:160-174
parse_npm_list(parsed_stdout) ==
    LET deps == flatten_deps(parsed_stdout)
        problems == get_in(parsed_stdout.problems, Value(<<>>)).value
    IN ReturnsDict(
        [problems |-> problems,
         dependencies |-> deps,
         dependencies_count |-> Len(deps),
         problems_count |-> Len(problems),
         root |-> IF Len(deps) > 0 THEN deps[Len(deps)] ELSE None,
         direct_dependencies_count |->
             IF Len(deps) > 0 THEN Len(deps[Len(deps)].dependencies) ELSE None,
         graph_stats |-> IF Len(deps) > 0 THEN get_graph_stats(deps) ELSE <<>>])

\* the loop of postprocess.py:180-190
RECURSIVE yarn_deps(_, _, _)
yarn_deps(deps, parsed_stdout, i) ==
    IF i > Len(parsed_stdout) THEN [raised |-> "none", deps |-> deps]
    ELSE IF parsed_stdout[i].type = "tree"
    THEN IF parsed_stdout[i].trees.state = "absent"
         THEN [raised |-> "KeyError", deps |-> deps]
         ELSE LET trees == parsed_stdout[i].trees.value
              IN yarn_deps(deps \o [j \in 1..Len(trees) |-> NPMPackage(trees[j], <<>>)],
                           parsed_stdout, i + 1)
    ELSE yarn_deps(deps, parsed_stdout, i + 1)

\* postprocess.py:177-200, counting the lines in place of the packages
parse_yarn_list_counting_lines(parsed_stdout) ==
    LET listed == yarn_deps(<<>>, parsed_stdout, 1)
    IN IF listed.raised # "none" THEN Raises(listed.raised)
       ELSE ReturnsDict(
            [dependencies |-> listed.deps,
             dependencies_count |-> Len(parsed_stdout),
             root |-> None,
             direct_dependencies_count |-> None,
             graph_stats |-> <<>>])

\* postprocess.py:177-200
parse_yarn_list(parsed_stdout) ==
    LET listed == yarn_deps(<<>>, parsed_stdout, 1)
    IN IF listed.raised # "none" THEN Raises(listed.raised)
       ELSE ReturnsDict(
            [dependencies |-> listed.deps,
             dependencies_count |-> Len(listed.deps),
             root |-> None,
             direct_dependencies_count |-> None,
             graph_stats |-> <<>>])

\* a list and a dict of advisories
AdvisoryList(items) == [type |-> "list", items |-> items]
AdvisoryDict(items) == [type |-> "dict", items |-> items]

\* extract_nested_fields of fpr.serialize_util on the counts of the
\* dependencies: the model's documents carry metadata.dependencies only
dependencies_counts(metadata) ==
    [dependencies_count |-> PyValue(get_in_path(metadata, "dependencies")),
     dev_dependencies_count |-> None,
     optional_dependencies_count |-> None,
     total_dependencies_count |-> None]

\* a member holding a number
Number(metadata) ==
    IF metadata.state = "value"
    THEN [metadata EXCEPT !.value = [vulnerabilities |-> @.vulnerabilities,
                                     dependencies |-> Value(@.dependencies)]]
    ELSE [metadata EXCEPT !.value = [vulnerabilities |-> @.vulnerabilities,
                                     dependencies |-> Absent(0)]]

\* postprocess.py:203-246
parse_npm_audit(parsed_stdout) ==
    LET metadata == Number(parsed_stdout.metadata)
        vulnerabilities == get_in_path(metadata, "vulnerabilities")
        advisories == get_in(parsed_stdout.advisories, Null(<<>>))
        counts == IF vulnerabilities.state = "null" THEN <<>>
                  ELSE vulnerabilities.value
    IN ReturnsDict(
        [vulnerabilities |-> counts,
         advisories |-> IF advisories.state = "null" THEN AdvisoryDict(<<>>)
                        ELSE AdvisoryDict(advisories.value),
         error |-> None,
         vulnerabilities_count |-> sum_values(counts)]
            @@ dependencies_counts(metadata))

\* the loop of postprocess.py:251-274 on the dict updates
RECURSIVE yarn_audit(_, _, _)
yarn_audit(dict, parsed_stdout, i) ==
    IF i > Len(parsed_stdout) THEN ReturnsDict(dict)
    ELSE LET line_type == parsed_stdout[i].type
             line_data == Number(get_in(parsed_stdout[i].data, Value(NoMetadata)))
         IN IF line_type = "auditAdvisory"
            THEN yarn_audit(
                    [dict EXCEPT !.advisories =
                        AdvisoryList(Append(@.items, parsed_stdout[i].advisory))],
                    parsed_stdout, i + 1)
            ELSE IF line_type = "auditSummary"
            THEN LET vulnerabilities == get_in_path(line_data, "vulnerabilities")
                 IN IF vulnerabilities.state = "null"
                    THEN Raises("AttributeError")
                    ELSE yarn_audit(
                            [vulnerabilities_count |-> sum_values(vulnerabilities.value),
                             vulnerabilities |-> vulnerabilities.value]
                                @@ dependencies_counts(line_data) @@ dict,
                            parsed_stdout, i + 1)
            ELSE yarn_audit(dict, parsed_stdout, i + 1)

\* postprocess.py:249-275
parse_yarn_audit(parsed_stdout) ==
    yarn_audit([advisories |-> AdvisoryList(<<>>)], parsed_stdout, 1)

\* postprocess.py:278-292
parse_npm_task(task_name, row) ==
    LET parsed_stdout == parse_stdout_as_json(row.task.stdout)
    IN IF parsed_stdout.raised # "none" THEN Raises(parsed_stdout.raised)
       ELSE IF parsed_stdout.none THEN ReturnsNone
       ELSE IF task_name = "list_metadata" THEN parse_npm_list(parsed_stdout.doc)
       ELSE IF task_name = "audit" THEN parse_npm_audit(parsed_stdout.doc)
       ELSE IF task_name = "install" THEN ReturnsNone
       ELSE Raises("NotImplementedError")

\* postprocess.py:295-308
parse_yarn_task(task_name, row) ==
    LET parsed_stdout == parse_stdout_as_jsonlines(row.task.stdout)
    IN IF parsed_stdout.raised # "none" THEN Raises(parsed_stdout.raised)
       ELSE IF parsed_stdout.none THEN ReturnsNone
       ELSE IF task_name = "list_metadata" THEN parse_yarn_list(parsed_stdout.lines)
       ELSE IF task_name = "audit" THEN parse_yarn_audit(parsed_stdout.lines)
       ELSE IF task_name = "install" THEN ReturnsNone
       ELSE Raises("NotImplementedError")

\* the key that the log line of run_pipeline reads from updates
\* (postprocess.py:372-384)
LoggedKey(task_name) ==
    IF task_name = "list_metadata" THEN {"dependencies_count"}
    ELSE IF task_name = "audit" THEN {"vulnerabilities_count"}
    ELSE {}

\* task_command == task.command for a task of package_managers[...]
\* (postprocess.py:357-368)
IsTaskOf(package_manager, task_command) ==
    \E n \in DOMAIN package_manager : package_manager[n] = task_command

\* args.repo_task and the start of run_pipeline (postprocess.py:61-72, 311-319)
NormalizeInit ==
    /\ pc = "done"
    /\ try_num = 0
    /\ result = "unset"
    /\ outcome = NoOutcome
    /\ now = 0
    /\ calls = 0
    /\ sleeps = 0
    /\ sleep_kind = "none"
    /\ sleep_seconds = 0
    /\ sleep_try = -1
    /\ sleep_now = 0
    /\ retry_after = NoHeader
    /\ reset_at = NoHeader
    /\ BatchIdle
    /\ PipelineIdle
    /\ ClientIdle
    /\ GroupIdle
    /\ GraphIdle
    /\ repo_task \in SUBSET TaskNames
    /\ line = NoLine
    /\ nrows = 0
    /\ tasks_result = <<>>
    /\ yielded = 0
    /\ updates = ReturnsNone
    /\ failure = "none"

\* one turn of the loop over the rows of a group (postprocess.py:340-385)
\* whose task is not among args.repo_task
SkipRow(row) ==
    /\ failure = "none"
    /\ yielded < MaxGroups
    /\ nrows < MaxRows
    /\ row.task.name \notin repo_task
    /\ line' = row
    /\ nrows' = nrows + 1
    /\ updates' = ReturnsNone
    /\ UNCHANGED <<repo_task, tasks_result, yielded, failure>>
    /\ UNCHANGED <<qvars, bvars, pvars, cvars, rvars, gvars>>

\* one turn of the loop over the rows of a group (postprocess.py:340-385)
ProcessRow(row) ==
    LET task_name == row.task.name
        task_command == row.task.command
        entry == (task_name :> extract_fields(row.task)) @@ tasks_result
        parsed == IF IsTaskOf(npm, task_command) THEN parse_npm_task(task_name, row)
                  ELSE parse_yarn_task(task_name, row)
    IN /\ failure = "none"
       /\ yielded < MaxGroups
       /\ nrows < MaxRows
       /\ task_name \in repo_task
       /\ line' = row
       /\ nrows' = nrows + 1
       /\ IF ~IsTaskOf(npm, task_command) /\ ~IsTaskOf(yarn, task_command)
          THEN /\ updates' = ReturnsNone
               /\ tasks_result' = entry
               /\ failure' = "none"
          ELSE /\ updates' = parsed
               /\ IF parsed.raised # "none"
                  THEN /\ tasks_result' = entry
                       /\ failure' = parsed.raised
                  ELSE IF parsed.none \/ DOMAIN parsed.dict = {}
                  THEN /\ tasks_result' = entry
                       /\ failure' = "none"
                  ELSE IF ~(LoggedKey(task_name) \subseteq DOMAIN parsed.dict)
                  THEN /\ tasks_result' = entry
                       /\ failure' = "KeyError"
                  ELSE /\ tasks_result' =
                            [entry EXCEPT ![task_name] = parsed.dict @@ @]
                       /\ failure' = "none"
       /\ UNCHANGED <<repo_task, yielded>>
       /\ UNCHANGED <<qvars, bvars, pvars, cvars, rvars, gvars>>

\* yield result (postprocess.py:386) and the start of the next group
\* (postprocess.py:316-339)
YieldResult ==
    /\ failure = "none"
    /\ yielded < MaxGroups
    /\ nrows > 0
    /\ yielded' = yielded + 1
    /\ nrows' = 0
    /\ tasks_result' = <<>>
    /\ line' = NoLine
    /\ updates' = ReturnsNone
    /\ UNCHANGED <<repo_task, failure>>
    /\ UNCHANGED <<qvars, bvars, pvars, cvars, rvars, gvars>>

NormalizeNext ==
    \/ \E row \in Lines : SkipRow(row)
    \/ \E row \in Lines : ProcessRow(row)
    \/ YieldResult

SpecNormalize == NormalizeInit /\ [][NormalizeNext]_vars

\* ---------------------------------------------------------------------
\* Claims about the postprocess pipeline
\* ---------------------------------------------------------------------

\* the row processed last is a task that run_pipeline parses
ParsesTask(package_manager) ==
    /\ line # NoLine
    /\ line.task.name \in repo_task
    /\ IsTaskOf(package_manager, line.task.command)

\* every line of the stdout is JSON
JSONLines(stdout) ==
    /\ ~stdout.none
    /\ \A i \in 1..Len(stdout.lines) : stdout.lines[i].ok

\* a valid audit output of Shape A: a JSON document, whose metadata may be
\* null or absent
ValidNpmAudit ==
    /\ ParsesTask(npm)
    /\ line.task.name = "audit"
    /\ ~line.task.stdout.none
    /\ line.task.stdout.doc.ok

\* a valid audit output of Shape B: every line is JSON, and every
\* auditSummary among them carries the severity to count mapping
ValidYarnAudit ==
    /\ ParsesTask(yarn)
    /\ line.task.name = "audit"
    /\ JSONLines(line.task.stdout)
    /\ \A i \in 1..Len(line.task.stdout.lines) :
          line.task.stdout.lines[i].type = "auditSummary" =>
              /\ line.task.stdout.lines[i].data.state = "value"
              /\ line.task.stdout.lines[i].data.value.vulnerabilities.state = "value"

\* the dict of updates has vulnerabilities_count, the sum of its vulnerabilities
CountIsSum ==
    /\ updates.raised = "none"
    /\ ~updates.none
    /\ {"vulnerabilities", "vulnerabilities_count"} \subseteq DOMAIN updates.dict
    /\ updates.dict.vulnerabilities_count = sum_values(updates.dict.vulnerabilities)

\* C17: for every valid audit output of npm (parse_npm_audit) and of yarn
\* (parse_yarn_audit) the normalized record has vulnerabilities_count, equal
\* to the sum of the counts of its severity to count mapping, also when the
\* metadata or the summary is null or absent and when there are several
\* summaries.
C17_VulnerabilitiesCountIsSum ==
    (ValidNpmAudit \/ ValidYarnAudit) => CountIsSum

\* parse_npm_task or parse_yarn_task gave a dict for the row processed last
ParsedTask ==
    /\ ParsesTask(npm) \/ ParsesTask(yarn)
    /\ updates.raised = "none"
    /\ ~updates.none

\* the fields of the normalization contract
RecordFields ==
    {"dependencies", "dependencies_count", "problems_count", "root",
     "direct_dependencies_count", "advisories", "vulnerabilities_count",
     "vulnerabilities"}

\* C18: whatever the input shape (npm list, npm audit, yarn list, yarn
\* audit), the record made for a parsed task has all of the fields
\* dependencies, dependencies_count, problems_count, root,
\* direct_dependencies_count, advisories, vulnerabilities_count and
\* vulnerabilities, and its advisories are a list.
C18_RecordHasAllFields ==
    ParsedTask =>
        /\ RecordFields \subseteq DOMAIN updates.dict
        /\ updates.dict.advisories.type = "list"

\* the stdout of the row processed last is missing, or is not a JSON
\* document (Shape A), or has a line that is not JSON (Shape B)
Unparseable ==
    \/ /\ ParsesTask(npm) \/ ParsesTask(yarn)
       /\ line.task.stdout.none
    \/ /\ ParsesTask(npm)
       /\ ~line.task.stdout.doc.ok
    \/ /\ ParsesTask(yarn)
       /\ ~JSONLines(line.task.stdout)

C20_MalformedListIsEmptyResult ==
    (Unparseable /\ line.task.name = "list_metadata" /\ ~line.task.stdout.none) =>
        /\ failure = "none"
        /\ line.task.name \in DOMAIN tasks_result
        /\ {"dependencies", "dependencies_count"}
               \subseteq DOMAIN tasks_result[line.task.name]
        /\ tasks_result[line.task.name].dependencies = <<>>
        /\ tasks_result[line.task.name].dependencies_count = 0

\* ---------------------------------------------------------------------
\* Further claims about async_query, checked under SpecQuery
\* ---------------------------------------------------------------------

\* C28: in async_query every backoff sleep is followed by another attempt:
\* there is no sleep after the 15th attempt, so a call that uses up its 15
\* attempts has slept at most 14 times.
C28_NoSleepAfterFinalAttempt ==
    /\ sleeps <= max_tries - 1
    /\ pc = "sleep" => try_num + 1 < max_tries

\* C22: after every response received by async_query, successful or failed,
\* the rate-limit state kept for later queries (reset timestamp, last
\* retry-after hint) equals the values carried by that latest response.
C22_RateLimitStateFollowsResponses ==
    outcome.kind # "none" =>
        /\ retry_after = outcome.retry_after
        /\ reset_at = outcome.reset_at

\* ---------------------------------------------------------------------
\* Further claims about the postprocess pipeline, checked under SpecNormalize
\* ---------------------------------------------------------------------

\* parse_npm_list or parse_yarn_list gave the dict of the row processed last
ListParsed(package_manager) ==
    /\ ParsesTask(package_manager)
    /\ line.task.name = "list_metadata"
    /\ updates.raised = "none"
    /\ ~updates.none

\* C30: in every record of parse_npm_list and parse_yarn_list,
\* dependencies_count is the length of dependencies; for yarn root and
\* direct_dependencies_count are both null; for npm both are null when the
\* flattened list is empty, and otherwise root is the last flattened entry
\* and direct_dependencies_count the number of its dependencies: so root is
\* null exactly when direct_dependencies_count is.
C30_ListRecordConsistent ==
    /\ (ListParsed(npm) \/ ListParsed(yarn)) =>
          updates.dict.dependencies_count = Len(updates.dict.dependencies)
    /\ ListParsed(yarn) =>
          /\ updates.dict.root = None
          /\ updates.dict.direct_dependencies_count = None
    /\ ListParsed(npm) =>
          LET deps == updates.dict.dependencies
          IN IF Len(deps) = 0
             THEN /\ updates.dict.root = None
                  /\ updates.dict.direct_dependencies_count = None
             ELSE /\ updates.dict.root = deps[Len(deps)]
                  /\ updates.dict.direct_dependencies_count =
                        Len(deps[Len(deps)].dependencies)

\* an npm list of a root with two dependencies was parsed
C30_Witness ==
    /\ ListParsed(npm)
    /\ Len(updates.dict.dependencies) = 3
    /\ updates.dict.direct_dependencies_count = 2
    /\ updates.dict.root.name = "root"

\* ---------------------------------------------------------------------
\* Further claims about main, checked under SpecPipeline
\* ---------------------------------------------------------------------

\* C24: the get_deps calls for the manifests of one repository may complete
\* in any order: in every order each entry of dep_file_deps holds exactly
\* the dependency nodes returned for its own manifest id, so the final map
\* is the same for every order.
C24_DepsKeyedByManifest ==
    \A r \in Repos, m \in Manifests :
        org_repos[r].dep_file_deps[m].set =>
            org_repos[r].dep_file_deps[m].nodes = DepPage(r, m)

\* the call for the second manifest of a repository has completed while
\* the call for the first, started earlier, is still in flight
C24_Witness ==
    \E r \in Repos :
        /\ Len(org_repos[r].dep_files) = 2
        /\ org_repos[r].dep_file_deps[2].set
        /\ org_repos[r].dep_file_deps[2].nodes = DepPage(r, 2)
        /\ ~org_repos[r].dep_file_deps[1].set
        /\ tasks[<<"deps", r, 1>>].pc = "inflight"

\* how many times a package name is among the names sent to the scoring
\* endpoint or waiting in the buffer
RECURSIVE Occurrences(_, _)
Occurrences(name, names) ==
    IF names = <<>> THEN 0
    ELSE (IF Head(names) = name THEN 1 ELSE 0) + Occurrences(name, Tail(names))

RECURSIVE NamesSent(_)
NamesSent(i) ==
    IF i > Len(scores) THEN [j \in DOMAIN buffer |-> buffer[j].name]
    ELSE scores[i].names \o NamesSent(i + 1)

\* C25: for any number of manifests of a repository and any completion
\* order of their get_deps calls, each (repository, manifest, dependency)
\* triple is emitted downstream exactly once: each NPM dependency of each
\* manifest is in exactly one scoring request, none lost and none sent twice.
C25_EachTripleOnce ==
    \A r \in Repos, m \in Manifests :
        /\ Occurrences(<<r, m, "a">>, NamesSent(1)) <= 1
        /\ (stream = "completed" /\ org_repos[r].dep_file_deps[m].set) =>
                Occurrences(<<r, m, "a">>, NamesSent(1)) = 1

\* C26: the session of the GHClient is closed only after every fetch of the
\* run has completed: GHClient.close is never run while a language,
\* manifest or dependency fetch is in flight, waiting, or still to be made.
C26_CloseAfterFetches ==
    closes.run > 0 =>
        /\ \A t \in TaskIds : ~Unfinished(tasks[t].pc)
        /\ stream = "active" => source = "completed"

\* C27: main terminates once the pipeline has ended: when the scoring stream
\* has ended, by completion or by an error, the event loop is stopped (so
\* that run_forever and main return).
C27_LoopStoppedWhenStreamEnded ==
    stream \in {"completed", "error"} => loop = "stopped"

\* the end-to-end scenario: the run has completed and one manifest was
\* listed in all, that of repository 1, with its page of dependency nodes
EndToEndScenario ==
    /\ stream = "completed"
    /\ Len(org_repos[1].dep_files) = 1
    /\ \A r \in Repos \ {1} : org_repos[r].dep_files = <<>>

\* the names of the NPM nodes of a page
RECURSIVE npm_names(_)
npm_names(deps) ==
    IF deps = <<>> THEN <<>>
    ELSE (IF Head(deps).packageManager = "NPM"
          THEN <<Head(deps).packageName>> ELSE <<>>) \o npm_names(Tail(deps))

\* C21: in the end-to-end scenario the scoring endpoint is called exactly
\* once in the whole run, with exactly the NPM package names of the
\* manifest's dependency page, and the batch was flushed by the timeout of
\* the window, not by the count threshold.
C21_ScoredOnceByTimeout ==
    EndToEndScenario =>
        /\ Len(scores) = 1
        /\ scores[1].names = npm_names(DepPage(1, org_repos[1].dep_files[1]))
        /\ scores[1].cause = "timer"

(***************************************************************************)
(* group_by_org_repo_ref_path (src/fpr/pipelines/postprocess.py:80-128).   *)
(* A row is the org/repo, the value of the ref and the sha256 digests of   *)
(* the dependency files of an input item; the groups hold the positions of *)
(* their rows in the input.                                                *)
(***************************************************************************)

OrgRepoNames == {"o/a", "o/b"}

RefValues == {"v1", "v2"}

\* the digests of the dependency files of an item: none, one or two files
DependencyFiles == {<<>>, <<"h1">>, <<"h1", "h2">>}

DepFileRows == [org_repo : OrgRepoNames, ref : RefValues, files : DependencyFiles]

\* postprocess.py:84-93: all the rows of the source are read into memory
GroupInit ==
    /\ pc = "done"
    /\ try_num = 0
    /\ result = "unset"
    /\ outcome = NoOutcome
    /\ now = 0
    /\ calls = 0
    /\ sleeps = 0
    /\ sleep_kind = "none"
    /\ sleep_seconds = 0
    /\ sleep_try = -1
    /\ sleep_now = 0
    /\ retry_after = NoHeader
    /\ reset_at = NoHeader
    /\ BatchIdle
    /\ PipelineIdle
    /\ ClientIdle
    /\ NormalizerIdle
    /\ GraphIdle
    /\ \E n \in 0..MaxInputRows : rows \in [1..n -> DepFileRows]
    /\ row_index = 1
    /\ current = NoGroup
    /\ grouped = <<>>
    /\ group_pc = "read"

\* postprocess.py:95-104: each sorted() call returns a new list, which is
\* dropped; rows and the lists of dependency files stay in the order read.
\* The keys row[2][0] and row[2][1] of lines 102 and 104 are evaluated only
\* where every row has that file.
SortRows ==
    /\ group_pc = "read"
    /\ group_pc' = "group"
    /\ UNCHANGED <<rows, row_index, current, grouped>>
    /\ UNCHANGED <<qvars, bvars, pvars, cvars, nvars, gvars>>

\* the key of postprocess.py:109-114, for a row with a dependency file
GroupKey(row) ==
    <<row.org_repo, row.ref, row.files[1],
      IF Len(row.files) > 1 THEN row.files[2] ELSE None>>

\* itertools.groupby takes the next row and computes its key
\* (postprocess.py:107-115): the row joins the group being collected when
\* its key equals that of the group, and otherwise that group is yielded
\* (lines 117-128) and the row starts a new one
NextRow ==
    /\ group_pc = "group"
    /\ row_index <= Len(rows)
    /\ rows[row_index].files # <<>>
    /\ LET key == GroupKey(rows[row_index])
       IN  IF current = NoGroup
           THEN /\ current' = [key |-> key, rows |-> <<row_index>>]
                /\ UNCHANGED grouped
           ELSE IF current.key = key
           THEN /\ current' = [current EXCEPT !.rows = Append(@, row_index)]
                /\ UNCHANGED grouped
           ELSE /\ grouped' = Append(grouped, current)
                /\ current' = [key |-> key, rows |-> <<row_index>>]
    /\ row_index' = row_index + 1
    /\ UNCHANGED <<rows, group_pc>>
    /\ UNCHANGED <<qvars, bvars, pvars, cvars, nvars, gvars>>

\* the key of a row without dependency files: row[2][0] of line 112 raises
\* IndexError, in groupby's next, and the generator ends with it
KeyRaises ==
    /\ group_pc = "group"
    /\ row_index <= Len(rows)
    /\ rows[row_index].files = <<>>
    /\ group_pc' = "IndexError"
    /\ UNCHANGED <<rows, row_index, current, grouped>>
    /\ UNCHANGED <<qvars, bvars, pvars, cvars, nvars, gvars>>

\* the rows are exhausted: the last group is yielded and the generator ends
EndOfRows ==
    /\ group_pc = "group"
    /\ row_index > Len(rows)
    /\ grouped' = IF current = NoGroup THEN grouped ELSE Append(grouped, current)
    /\ current' = NoGroup
    /\ group_pc' = "done"
    /\ UNCHANGED <<rows, row_index>>
    /\ UNCHANGED <<qvars, bvars, pvars, cvars, nvars, gvars>>

GroupNext ==
    \/ SortRows
    \/ NextRow
    \/ KeyRaises
    \/ EndOfRows

SpecGroup == GroupInit /\ [][GroupNext]_vars

\* the groups that hold row i of the input
GroupsOf(i) == {g \in DOMAIN grouped : \E j \in DOMAIN grouped[g].rows :
                                          grouped[g].rows[j] = i}

\* C29: group_by_org_repo_ref_path partitions its input by key, whatever
\* the order of the input: no row makes it fail, a row without dependency
\* files included, and when it has ended every input row is in exactly one
\* yielded group, the rows of a group are those of one key, and no two
\* yielded groups have the same key.
C29_GroupsPartitionByKey ==
    /\ group_pc # "IndexError"
    /\ group_pc = "done" =>
        /\ \A i \in DOMAIN rows : Cardinality(GroupsOf(i)) = 1
        /\ \A g \in DOMAIN grouped : \A j \in DOMAIN grouped[g].rows :
              GroupKey(rows[grouped[g].rows[j]]) = grouped[g].key
        /\ \A g, h \in DOMAIN grouped : grouped[g].key = grouped[h].key => g = h

(***************************************************************************)
(* The dependency graph builder (npm_packages_to_networkx_digraph and      *)
(* get_graph_stats of fpr.graph_util, called at postprocess.py:171-173):   *)
(* the entries of a normalized dependency list get one node for each       *)
(* (name, version), the first occurrence winning, and then every dependent *)
(* specifier is resolved to a node: a fully-qualified one (name@version)   *)
(* directly, a bare range not at all, being recorded as unresolved.        *)
(***************************************************************************)

PackageNames == {"a", "b"}

Versions == {"1.0.0", "2.0.0"}

Ranges == {"^1.0.0"}

\* a dependent specifier: name@version or name@range
Specifiers == [name : PackageNames, spec : Versions \cup Ranges]

fully_qualified(specifier) == specifier.spec \in Versions

\* an entry of a normalized dependency list
Entries ==
    [name : PackageNames, version : Versions,
     dependencies : UNION {[1..n -> Specifiers] : n \in 0..MaxDependents}]

GraphInit ==
    /\ pc = "done"
    /\ try_num = 0
    /\ result = "unset"
    /\ outcome = NoOutcome
    /\ now = 0
    /\ calls = 0
    /\ sleeps = 0
    /\ sleep_kind = "none"
    /\ sleep_seconds = 0
    /\ sleep_try = -1
    /\ sleep_now = 0
    /\ retry_after = NoHeader
    /\ reset_at = NoHeader
    /\ BatchIdle
    /\ PipelineIdle
    /\ ClientIdle
    /\ NormalizerIdle
    /\ GroupIdle
    /\ \E n \in 0..MaxEntries : dependency_list \in [1..n -> Entries]
    /\ entry_index = 1
    /\ graph_nodes = <<>>
    /\ graph_links = {}
    /\ unresolved = {}
    /\ stats = NoStats
    /\ graph_pc = "nodes"

\* the id of the node of (name, version) among the nodes ns, 0 when it has
\* none
NodeId(ns, name, version) ==
    IF \E i \in DOMAIN ns : ns[i] = [name |-> name, version |-> version]
    THEN CHOOSE i \in DOMAIN ns : ns[i] = [name |-> name, version |-> version]
    ELSE 0

\* the traversal visits an entry: its (name, version) gets a node id unless
\* an earlier entry has it
AssignNode ==
    /\ graph_pc = "nodes"
    /\ entry_index <= Len(dependency_list)
    /\ LET entry == dependency_list[entry_index]
       IN  graph_nodes' =
             IF NodeId(graph_nodes, entry.name, entry.version) # 0 THEN graph_nodes
             ELSE Append(graph_nodes, [name |-> entry.name, version |-> entry.version])
    /\ entry_index' = entry_index + 1
    /\ UNCHANGED <<dependency_list, graph_links, unresolved, stats, graph_pc>>
    /\ UNCHANGED <<qvars, bvars, pvars, cvars, nvars, rvars>>

\* every entry was visited: the specifiers are resolved next
NodesAssigned ==
    /\ graph_pc = "nodes"
    /\ entry_index > Len(dependency_list)
    /\ graph_pc' = "links"
    /\ entry_index' = 1
    /\ UNCHANGED <<dependency_list, graph_nodes, graph_links, unresolved, stats>>
    /\ UNCHANGED <<qvars, bvars, pvars, cvars, nvars, rvars>>

\* a bare range resolved to the first node of that name
resolve_by_name(ns, specifier) ==
    IF \E i \in DOMAIN ns : ns[i].name = specifier.name
    THEN CHOOSE i \in DOMAIN ns :
           /\ ns[i].name = specifier.name
           /\ \A j \in DOMAIN ns : ns[j].name = specifier.name => i <= j
    ELSE 0

\* the node id a dependent specifier resolves to, 0 when it is unresolved:
\* a fully-qualified specifier resolves directly to the node of its name
\* and version, a bare range to none
resolve(ns, specifier) ==
    IF fully_qualified(specifier)
    THEN NodeId(ns, specifier.name, specifier.spec)
    ELSE 0

\* the dependent specifiers of an entry are resolved: a link from the node
\* of the entry to the node of each one that resolves, the others recorded
\* as unresolved
ResolveSpecifiers ==
    /\ graph_pc = "links"
    /\ entry_index <= Len(dependency_list)
    /\ LET entry == dependency_list[entry_index]
           parent == NodeId(graph_nodes, entry.name, entry.version)
           resolved == {j \in DOMAIN entry.dependencies :
                          resolve(graph_nodes, entry.dependencies[j]) # 0}
       IN  /\ graph_links' = graph_links \cup
                {<<parent, resolve(graph_nodes, entry.dependencies[j])>> : j \in resolved}
           /\ unresolved' = unresolved \cup
                {<<parent, entry.dependencies[j]>> :
                    j \in DOMAIN entry.dependencies \ resolved}
    /\ entry_index' = entry_index + 1
    /\ UNCHANGED <<dependency_list, graph_nodes, stats, graph_pc>>
    /\ UNCHANGED <<qvars, bvars, pvars, cvars, nvars, rvars>>

\* the summary statistics of the graph
Summarise ==
    /\ graph_pc = "links"
    /\ entry_index > Len(dependency_list)
    /\ stats' = [node_count |-> Len(graph_nodes),
                 edge_count |-> Cardinality(graph_links)]
    /\ graph_pc' = "done"
    /\ UNCHANGED <<dependency_list, entry_index, graph_nodes, graph_links, unresolved>>
    /\ UNCHANGED <<qvars, bvars, pvars, cvars, nvars, rvars>>

GraphNext ==
    \/ AssignNode
    \/ NodesAssigned
    \/ ResolveSpecifiers
    \/ Summarise

SpecGraph == GraphInit /\ [][GraphNext]_vars

\* no dependent specifier of the list is fully qualified
NoFullyQualified ==
    \A i \in DOMAIN dependency_list :
        \A j \in DOMAIN dependency_list[i].dependencies :
            ~fully_qualified(dependency_list[i].dependencies[j])

\* the (name, version) pairs of the list
Identities ==
    {<<dependency_list[i].name, dependency_list[i].version>> :
        i \in DOMAIN dependency_list}

====
